---- MODULE Spec2Model ----
(***************************************************************************)
(* A model of the EIP-712 action-signing subsystem of the perp frontend:   *)
(* the L1 signing flows (signOrder, signCancelOrder, signCancelAllOrders), *)
(* the user-signed flows (createAgentOnFrontend, withdrawUSDC), the pure   *)
(* encoder actionHash, and the UI handlers and wallet hook that feed them. *)
(*                                                                         *)
(* JavaScript values are tagged records, one payload field per type,       *)
(* so that '42161' and 42161, null and undefined, 0 and "" stay distinct.  *)
(* Strings are TLA+ strings; objects are ordered sequences of <<key,       *)
(* value>> pairs (insertion order, which msgpack serialises).              *)
(***************************************************************************)
EXTENDS Integers, Sequences, FiniteSets, TLC

VARIABLES
    now,          \* Date.now(), the wall clock in milliseconds
    wallet,       \* the wallet: its active network chain id, whether the site is authorised
    chainEvents,  \* chainChanged events emitted by the wallet, not yet delivered
    hook,         \* useWallet state: account, signer, provider, chainId
    conn,         \* position of the hook's pending asynchronous step
    canceling,    \* Orders state: oid of the order being cancelled, or null
    storage,      \* localStorage['hyperliquid_agent'], or null
    flow,         \* the signing flow in flight
    h,            \* a direct call of signL1Action / actionHash
    cancels,      \* Orders: the handleCancel calls in flight, each with its signing flow
    acct,         \* useWallet: the accountsChanged handlers in flight
    lev,          \* a call of getAllCoinLeverages
    dep           \* a call of depositWithApproval

vars == <<now, wallet, chainEvents, hook, conn, canceling, storage, flow, h,
          cancels, acct, lev, dep>>

\* the calls that are in flight beside the signing flow
calls == <<cancels, acct, lev, dep>>

----------------------------------------------------------------------------
(* JavaScript values *)

Null == [t |-> "null"]
Undefined == [t |-> "undefined"]
NaN == [t |-> "NaN"]
Num(n) == [t |-> "number", n |-> n]
Str(s) == [t |-> "string", s |-> s]
Bool(b) == [t |-> "boolean", b |-> b]
Arr(s) == [t |-> "array", a |-> s]
Obj(kv) == [t |-> "object", o |-> kv]
\* a BigInt: sign and magnitude, the magnitude in base 256, most significant
\* digit first, without leading zeros
Big(neg, mag) == [t |-> "bigint", neg |-> neg, mag |-> mag]

\* const v = value: the value is computed once and handed to what follows
Let(v, F(_)) == F(v)

IsNullish(x) == x.t \in {"null", "undefined"}

\* ToBoolean: what if (x), !x and x || y test
Truthy(x) ==
    CASE x.t \in {"null", "undefined", "NaN"} -> FALSE
      [] x.t = "number" -> x.n # 0
      [] x.t = "string" -> x.s # ""
      [] x.t = "boolean" -> x.b
      [] x.t = "bigint" -> x.mag # <<>>
      [] OTHER -> TRUE

OrElse(x, y) == IF Truthy(x) THEN x ELSE y

Min(a, b) == IF a < b THEN a ELSE b

----------------------------------------------------------------------------
(* Objects *)

Keys(x) == {x.o[i][1] : i \in 1..Len(x.o)}
HasKey(x, k) == k \in Keys(x)
KeyPos(x, k) == CHOOSE i \in 1..Len(x.o) : x.o[i][1] = k
Get(x, k) == IF HasKey(x, k) THEN x.o[KeyPos(x, k)][2] ELSE Undefined
\* o[k] = x: in place when the key exists, appended otherwise
Put(x, k, y) ==
    IF HasKey(x, k)
    THEN Obj([x.o EXCEPT ![KeyPos(x, k)] = <<k, y>>])
    ELSE Obj(Append(x.o, <<k, y>>))
\* a delete that removes nothing
Keep(x, k) == x
\* delete o[k]
Delete(x, k) ==
    IF HasKey(x, k)
    THEN Obj(SubSeq(x.o, 1, KeyPos(x, k) - 1) \o SubSeq(x.o, KeyPos(x, k) + 1, Len(x.o)))
    ELSE x

----------------------------------------------------------------------------
(* Strings and numbers *)

DigitChars == "0123456789"
HexLower == "0123456789abcdef"
HexUpper == "0123456789ABCDEF"
UpperChars == "ABCDEFGHIJKLMNOPQRSTUVWXYZ"
LowerChars == "abcdefghijklmnopqrstuvwxyz"

CharAt(s, i) == SubSeq(s, i, i)

RECURSIVE IndexFrom(_, _, _)
IndexFrom(c, s, i) ==
    IF i > Len(s) THEN 0
    ELSE IF CharAt(s, i) = c THEN i
    ELSE IndexFrom(c, s, i + 1)
\* 1-based position of character c in s, 0 when absent
IndexOf(c, s) == IndexFrom(c, s, 1)

\* the ASCII code of a character of the strings the model uses
CharCode(c) ==
    CASE IndexOf(c, DigitChars) > 0 -> 47 + IndexOf(c, DigitChars)
      [] IndexOf(c, UpperChars) > 0 -> 64 + IndexOf(c, UpperChars)
      [] IndexOf(c, LowerChars) > 0 -> 96 + IndexOf(c, LowerChars)
      [] c = " " -> 32
      [] c = "-" -> 45
      [] c = "." -> 46
      [] c = ":" -> 58
      [] OTHER -> 95
DigitVal(c) == IndexOf(c, DigitChars) - 1
HexVal(c) ==
    IF IndexOf(c, HexLower) > 0 THEN IndexOf(c, HexLower) - 1
    ELSE IndexOf(c, HexUpper) - 1

\* s.slice(from, to) with 0-based bounds, clipped to the string
Slice(s, from, to) ==
    IF from >= Min(to, Len(s)) THEN "" ELSE SubSeq(s, from + 1, Min(to, Len(s)))
SliceFrom(s, from) == Slice(s, from, Len(s))
StartsWith(s, p) == Slice(s, 0, Len(p)) = p

RECURSIVE NatToStr(_)
NatToStr(n) ==
    IF n < 10 THEN CharAt(DigitChars, n + 1)
    ELSE NatToStr(n \div 10) \o CharAt(DigitChars, (n % 10) + 1)
\* Number.prototype.toString() of an integer
IntToStr(n) == IF n < 0 THEN "-" \o NatToStr(-n) ELSE NatToStr(n)

RECURSIVE NatToHex(_)
NatToHex(n) ==
    IF n < 16 THEN CharAt(HexLower, n + 1)
    ELSE NatToHex(n \div 16) \o CharAt(HexLower, (n % 16) + 1)

\* the longest prefix of s made of digits of the radix, as <<value, length>>
RECURSIVE DigitPrefix(_, _, _, _)
DigitPrefix(s, radix, acc, len) ==
    LET c == CharAt(s, len + 1)
        d == IF radix = 16 THEN HexVal(c) ELSE DigitVal(c)
    IN IF len >= Len(s) \/ d < 0 THEN <<acc, len>>
       ELSE DigitPrefix(s, radix, acc * radix + d, len + 1)

RECURSIVE TrimLeft(_)
TrimLeft(s) == IF Len(s) > 0 /\ Head(s) = " " THEN TrimLeft(Tail(s)) ELSE s
RECURSIVE TrimRight(_)
TrimRight(s) ==
    IF Len(s) > 0 /\ CharAt(s, Len(s)) = " " THEN TrimRight(SubSeq(s, 1, Len(s) - 1)) ELSE s

\* parseInt(s, radix): leading blanks, a sign, for radix 16 an optional 0x, then
\* the longest run of digits; NaN when there is none
Signed(neg, p) == IF p[2] = 0 THEN NaN ELSE Num(IF neg THEN -p[1] ELSE p[1])
Unprefixed(s, radix) ==
    IF radix = 16 /\ (StartsWith(s, "0x") \/ StartsWith(s, "0X")) THEN SliceFrom(s, 2) ELSE s
Unsigned(s) == IF StartsWith(s, "-") \/ StartsWith(s, "+") THEN SliceFrom(s, 1) ELSE s
ParseInt(s, radix) ==
    Let(TrimLeft(s), LAMBDA s1 :
        Signed(StartsWith(s1, "-"), DigitPrefix(Unprefixed(Unsigned(s1), radix), radix, 0, 0)))

WholeNumber(neg, digits, p) ==
    IF digits = "" \/ p[2] # Len(digits) THEN NaN ELSE Num(IF neg THEN -p[1] ELSE p[1])
StrToNumber(s1) ==
    IF s1 = "" THEN Num(0)
    ELSE Let(Unsigned(s1), LAMBDA s2 :
             WholeNumber(StartsWith(s1, "-"), s2, DigitPrefix(s2, 10, 0, 0)))

\* Number(x) on the integer literals of the model: the whole trimmed string must
\* be a signed run of decimal digits, the empty string is 0, all else NaN
ToNumber(x) ==
    CASE x.t = "number" -> x
      [] x.t = "NaN" -> NaN
      [] x.t = "null" -> Num(0)
      [] x.t = "boolean" -> Num(IF x.b THEN 1 ELSE 0)
      [] x.t = "string" -> StrToNumber(TrimRight(TrimLeft(x.s)))
      [] OTHER -> NaN

\* parseFloat(s) on the same literals: the longest numeric prefix
ParseFloat(x) ==
    IF x.t = "number" THEN x
    ELSE IF x.t = "string" THEN ParseInt(x.s, 10)
    ELSE NaN

\* String(x) and x.toString()
ToStr(x) ==
    CASE x.t = "string" -> x.s
      [] x.t = "number" -> IntToStr(x.n)
      [] x.t = "NaN" -> "NaN"
      [] x.t = "boolean" -> IF x.b THEN "true" ELSE "false"
      [] x.t = "null" -> "null"
      [] OTHER -> "undefined"

----------------------------------------------------------------------------
(* Bytes, hex and BigInt *)

NonceBytesLen == 8
AddressBytesLen == 20

RECURSIVE NatToBytes(_)
\* base-256 digits of n, most significant first, no leading zero
NatToBytes(n) == IF n = 0 THEN <<>> ELSE Append(NatToBytes(n \div 256), n % 256)

RECURSIVE StripZeros(_)
StripZeros(bs) == IF Len(bs) > 0 /\ Head(bs) = 0 THEN StripZeros(Tail(bs)) ELSE bs

\* BigInt(x): throws on what is no integer
ToBigInt(x) ==
    CASE x.t = "bigint" -> [ok |-> TRUE, val |-> x]
      [] x.t = "number" -> [ok |-> TRUE,
                            val |-> Big(x.n < 0, NatToBytes(IF x.n < 0 THEN -x.n ELSE x.n))]
      [] x.t = "boolean" -> [ok |-> TRUE, val |-> Big(FALSE, IF x.b THEN <<1>> ELSE <<>>)]
      [] x.t = "string" ->
            Let(ToNumber(x), LAMBDA n :
                IF n.t = "NaN" THEN [ok |-> FALSE, err |-> "Cannot convert to a BigInt"]
                ELSE [ok |-> TRUE,
                      val |-> Big(n.n < 0, NatToBytes(IF n.n < 0 THEN -n.n ELSE n.n))])
      [] OTHER -> [ok |-> FALSE, err |-> "Cannot convert to a BigInt"]

\* a sign test that lets every value through: the encoder without its range check
NeverNegative(x) == FALSE
\* value < 0n
BigNegative(x) == x.neg /\ x.mag # <<>>
\* Number(value & 0xFFn) of a non-negative BigInt
LowByte(mag) == IF mag = <<>> THEN 0 ELSE mag[Len(mag)]
\* value >> 8n of a non-negative BigInt
ShiftRight8(mag) == IF mag = <<>> THEN <<>> ELSE SubSeq(mag, 1, Len(mag) - 1)

RECURSIVE WriteBigEndian(_, _, _)
\* for (let i = 7; i >= 0; i--) { bytes[i] = Number(value & 0xFFn); value = value >> 8n; }
WriteBigEndian(mag, i, bytes) ==
    IF i < 0 THEN bytes
    ELSE WriteBigEndian(ShiftRight8(mag), i - 1, [bytes EXCEPT ![i + 1] = LowByte(mag)])

Uint8Array(n) == [i \in 1..n |-> 0]

ByteToHex(b) == CharAt(HexLower, (b \div 16) + 1) \o CharAt(HexLower, (b % 16) + 1)
RECURSIVE BytesToHex(_)
BytesToHex(bs) == IF bs = <<>> THEN "" ELSE ByteToHex(Head(bs)) \o BytesToHex(Tail(bs))
\* ethers.hexlify(bytes)
Hexlify(bs) == "0x" \o BytesToHex(bs)

RECURSIVE HexToBytes(_)
HexToBytes(s) ==
    IF Len(s) < 2 THEN <<>>
    ELSE <<HexVal(CharAt(s, 1)) * 16 + HexVal(CharAt(s, 2))>> \o HexToBytes(SliceFrom(s, 2))
\* ethers.getBytes(hexString)
GetBytes(s) == HexToBytes(IF StartsWith(s, "0x") THEN SliceFrom(s, 2) ELSE s)

\* addressToBytes(address): parseInt of each pair of hex characters; a pair that
\* is no number is stored in the Uint8Array as 0
AddressToBytes(address) ==
    LET hex == IF StartsWith(address, "0x") THEN SliceFrom(address, 2) ELSE address
        byte(i) == LET n == ParseInt(Slice(hex, i * 2, i * 2 + 2), 16)
                   IN IF n.t = "NaN" THEN 0 ELSE n.n % 256
    IN [i \in 1..AddressBytesLen |-> byte(i - 1)]

\* addressToInt(address).toString(): BigInt(address) in decimal; BigInt throws a
\* SyntaxError on a string that is no integer literal
AddressToIntStr(address) ==
    LET hex == StartsWith(address, "0x")
        body == IF hex THEN SliceFrom(address, 2) ELSE address
        p == DigitPrefix(body, IF hex THEN 16 ELSE 10, 0, 0)
    IN IF p[2] # Len(body) \/ (hex /\ body = "")
       THEN [ok |-> FALSE, err |-> "Cannot convert " \o address \o " to a BigInt"]
       ELSE [ok |-> TRUE, val |-> IntToStr(p[1])]

----------------------------------------------------------------------------
(* msgpack: encode() of @msgpack/msgpack on the values the actions hold *)

RECURSIVE StrBytes(_)
StrBytes(s) == IF s = "" THEN <<>> ELSE <<CharCode(Head(s))>> \o StrBytes(Tail(s))

PackStr(s) ==
    IF Len(s) < 32 THEN <<160 + Len(s)>> \o StrBytes(s)
    ELSE IF Len(s) < 256 THEN <<217, Len(s)>> \o StrBytes(s)
    ELSE <<218, Len(s) \div 256, Len(s) % 256>> \o StrBytes(s)

PackInt(n) ==
    IF n >= 0 THEN
        IF n < 128 THEN <<n>>
        ELSE IF n < 256 THEN <<204, n>>
        ELSE IF n < 65536 THEN <<205, n \div 256, n % 256>>
        ELSE <<206, n \div 16777216, (n \div 65536) % 256, (n \div 256) % 256, n % 256>>
    ELSE
        IF n >= -32 THEN <<256 + n>>
        ELSE IF n >= -128 THEN <<208, 256 + n>>
        ELSE <<209, (65536 + n) \div 256, (65536 + n) % 256>>

RECURSIVE Msgpack(_)
RECURSIVE PackItems(_)
RECURSIVE PackEntries(_)
PackItems(xs) == IF xs = <<>> THEN <<>> ELSE Msgpack(Head(xs)) \o PackItems(Tail(xs))
PackEntries(kv) ==
    IF kv = <<>> THEN <<>>
    ELSE PackStr(Head(kv)[1]) \o Msgpack(Head(kv)[2]) \o PackEntries(Tail(kv))
Msgpack(x) ==
    CASE x.t \in {"null", "undefined"} -> <<192>>
      [] x.t = "boolean" -> IF x.b THEN <<195>> ELSE <<194>>
      [] x.t = "number" -> PackInt(x.n)
      [] x.t = "NaN" -> <<203, 127, 248, 0, 0, 0, 0, 0, 0>>
      [] x.t = "string" -> PackStr(x.s)
      [] x.t = "array" ->
            (IF Len(x.a) < 16 THEN <<144 + Len(x.a)>>
             ELSE <<220, Len(x.a) \div 256, Len(x.a) % 256>>) \o PackItems(x.a)
      [] OTHER ->
            (IF Len(x.o) < 16 THEN <<128 + Len(x.o)>>
             ELSE <<222, Len(x.o) \div 256, Len(x.o) % 256>>) \o PackEntries(x.o)

----------------------------------------------------------------------------
(* The L1 signing core *)

\* ethers.keccak256: an ideal hash, the digest stands for its preimage
Keccak256(data) == [t |-> "bytes32", pre |-> data]

Thrown(msg) == [ok |-> FALSE, err |-> msg]

\* the 8 big-endian bytes of a nonce or an expiry, or the error thrown
Uint64Bytes(x, what) ==
    Let(ToBigInt(x), LAMBDA b :
        IF ~b.ok THEN b
        ELSE IF BigNegative(b.val) THEN Thrown(what \o " must be non-negative")
        ELSE [ok |-> TRUE,
              val |-> WriteBigEndian(b.val.mag, NonceBytesLen - 1, Uint8Array(NonceBytesLen))])

\* a vault part without its flag byte
VaultPartBare(vaultAddress) ==
    IF IsNullish(vaultAddress) THEN <<>> ELSE AddressToBytes(vaultAddress.s)

VaultPart(vaultAddress) ==
    IF IsNullish(vaultAddress) THEN <<0>> ELSE <<1>> \o AddressToBytes(vaultAddress.s)

\* actionHash: the preimage is built part by part; a throw ends it before keccak256
ExpiryPart(data, expiresAfter) ==
    IF IsNullish(expiresAfter) THEN [ok |-> TRUE, val |-> data]
    ELSE Let(Uint64Bytes(expiresAfter, "ExpiresAfter"), LAMBDA expiresBytes :
             IF ~expiresBytes.ok THEN expiresBytes
             ELSE [ok |-> TRUE, val |-> data \o <<0>> \o expiresBytes.val])

\* the bytes actionHash hands to keccak256, or the error thrown before
Preimage(action, vaultAddress, nonce, expiresAfter) ==
    Let(Msgpack(action), LAMBDA actionBytes :
    Let(Uint64Bytes(nonce, "Nonce"), LAMBDA nonceBytes :
        IF ~nonceBytes.ok THEN nonceBytes
        ELSE ExpiryPart(actionBytes \o nonceBytes.val \o VaultPart(vaultAddress),
                        expiresAfter)))

ActionHash(action, vaultAddress, nonce, expiresAfter) ==
    Let(Preimage(action, vaultAddress, nonce, expiresAfter), LAMBDA data :
        IF ~data.ok THEN data ELSE [ok |-> TRUE, val |-> Keccak256(data.val)])

ConstructPhantomAgent(hash, isMainnet) ==
    Obj(<< <<"source", Str(IF isMainnet THEN "a" ELSE "b")>>, <<"connectionId", hash>> >>)

ZeroAddress == "0x0000000000000000000000000000000000000000"

AgentType ==
    Arr(<< Obj(<< <<"name", Str("source")>>, <<"type", Str("string")>> >>),
           Obj(<< <<"name", Str("connectionId")>>, <<"type", Str("bytes32")>> >>) >>)

L1Payload(phantomAgent, chainId) ==
    LET chainIdNum == IF chainId.t = "string" THEN ParseInt(chainId.s, 10) ELSE chainId
    IN Obj(<< <<"domain", Obj(<< <<"chainId", chainIdNum>>, <<"name", Str("Exchange")>>,
                                 <<"verifyingContract", Str(ZeroAddress)>>,
                                 <<"version", Str("1")>> >>)>>,
              <<"types", Obj(<< <<"Agent", AgentType>> >>)>>,
              <<"primaryType", Str("Agent")>>,
              <<"message", phantomAgent>> >>)

\* the three arguments of signer.signTypedData(domain, types, message)
TypedDataRequest(domain, types, message) ==
    Obj(<< <<"domain", domain>>, <<"types", types>>, <<"message", message>> >>)

\* signL1Action up to the call of signer.signTypedData inside signInner: the
\* request handed to the wallet, or the error actionHash threw
SignInner(data) ==
    TypedDataRequest(Get(data, "domain"), Get(data, "types"), Get(data, "message"))

SignL1Action(action, activePool, nonce, expiresAfter, isMainnet, chainId) ==
    Let(ActionHash(action, activePool, nonce, expiresAfter), LAMBDA hash :
        IF ~hash.ok THEN hash
        ELSE [ok |-> TRUE, hash |-> hash.val,
              val |-> SignInner(L1Payload(ConstructPhantomAgent(hash.val, isMainnet),
                                          chainId))])

\* a rule that knows Arbitrum One only
IsArbitrumOne(chainId) == chainId = Str("42161") \/ chainId = Num(42161)

\* the mainnet rule, written out in every flow
IsMainnet(chainId) ==
    chainId = Str("1") \/ chainId = Str("42161") \/ chainId = Num(1) \/ chainId = Num(42161)

\* signature parsing: signInner, signUserSignedAction and splitSignature
Strip0x(x) == IF StartsWith(x, "0x") THEN SliceFrom(x, 2) ELSE x
\* bytes.slice(from, to)
SliceBytes(bytes, from, to) == SubSeq(bytes, from + 1, Min(to, Len(bytes)))
\* a split that leaves the 0x prefix on r and s
SplitSignaturePrefixed(signatureHex) ==
    Let(GetBytes(signatureHex), LAMBDA sigBytes :
        Obj(<< <<"r", Str(Hexlify(SliceBytes(sigBytes, 0, 32)))>>,
               <<"s", Str(Hexlify(SliceBytes(sigBytes, 32, 64)))>>,
               <<"v", IF Len(sigBytes) >= 65 THEN Num(sigBytes[65]) ELSE Undefined>> >>))
SplitSignature(signatureHex) ==
    Let(GetBytes(signatureHex), LAMBDA sigBytes :
        Obj(<< <<"r", Str(Strip0x(Hexlify(SliceBytes(sigBytes, 0, 32))))>>,
               <<"s", Str(Strip0x(Hexlify(SliceBytes(sigBytes, 32, 64))))>>,
               <<"v", IF Len(sigBytes) >= 65 THEN Num(sigBytes[65]) ELSE Undefined>> >>))
\* the same parsing as signInner writes it, after its await on signTypedData
SignInnerSignature(signature) ==
    Let(GetBytes(signature), LAMBDA sigBytes :
        Obj(<< <<"r", Str(Strip0x(Hexlify(SliceBytes(sigBytes, 0, 32))))>>,
               <<"s", Str(Strip0x(Hexlify(SliceBytes(sigBytes, 32, 64))))>>,
               <<"v", IF Len(sigBytes) >= 65 THEN Num(sigBytes[65]) ELSE Undefined>> >>))
\* and as signUserSignedAction writes it: parsedSignature
ParsedSignature(signature) ==
    Let(GetBytes(signature), LAMBDA sigBytes :
        Obj(<< <<"r", Str(Strip0x(Hexlify(SliceBytes(sigBytes, 0, 32))))>>,
               <<"s", Str(Strip0x(Hexlify(SliceBytes(sigBytes, 32, 64))))>>,
               <<"v", IF Len(sigBytes) >= 65 THEN Num(sigBytes[65]) ELSE Undefined>> >>))

----------------------------------------------------------------------------
(* Bounds and inputs *)

\* the clock takes the values 1..MaxNow
MaxNow == 2

User1 == "0x0000000000000000000000000000000000000042"
Sig1 == "0x00112233445566778899aabbccddeeff00112233445566778899aabbccddeeffffeeddccbbaa99887766554433221100ffeeddccbbaa99887766554433221100" \o "1b"
Sig2 == "0x0123456789abcdef0123456789abcdef0123456789abcdef0123456789abcdef7edcba98765432107edcba98765432107edcba98765432107edcba9876543210" \o "1c"
\* what the wallet returns from signTypedData: a 65-byte signature in hex
WalletSignatures == {Sig1, Sig2}

\* an ethers signer; provider says whether signer.provider is set
Signer(provider) == [t |-> "signer", provider |-> provider]

Networks == {1, 42161, 421614}
\* the networks the wallet is on
WalletNetworks == {42161, 421614}
\* chain ids as callers pass them: numbers and decimal strings, or nothing
ChainIdInputs ==
    {Null} \cup {Num(c) : c \in Networks \cup {1337}}
           \cup {Str(IntToStr(c)) : c \in Networks \cup {1337}}

\* response.data of GET /market/meta
MetaOk ==
    Obj(<< <<"coin_to_asset_index", Obj(<< <<"BTC", Num(0)>>, <<"ETH", Num(1)>> >>)>> >>)
MetaResponses == {Null, Obj(<<>>), MetaOk}

----------------------------------------------------------------------------
(* A signing flow: one call of a signing function, from its arguments to the
   promise it settles, with what it asked of the network and of the wallet *)

NoFlow ==
    [kind |-> "none", via |-> "api", pc |-> "idle",
     signer |-> Null, userAddress |-> Null, chainId |-> Null, params |-> Null,
     nonce |-> Null, action |-> Null, isMainnet |-> FALSE, baseUrl |-> "",
     hashed |-> Null, request |-> Null, signedOn |-> 0, answer |-> "none",
     metaRequests |-> 0, walletCalls |-> 0, signRequests |-> 0,
     exchangeRequests |-> 0, backendRequests |-> 0, saves |-> 0,
     meta |-> Undefined, signature |-> "", failures |-> 0,
     payload |-> Null, result |-> Null, error |-> ""]

Start(kind, via, params, userAddress, signer, chainId) ==
    [NoFlow EXCEPT !.kind = kind, !.via = via, !.params = params,
                   !.userAddress = userAddress, !.signer = signer, !.chainId = chainId]

\* the catch block of each signing function: throw new Error(prefix + error.message)
ErrorPrefix(kind) ==
    CASE kind = "order" -> "Failed to sign order: "
      [] kind = "cancel" -> "Failed to sign cancel order: "
      [] kind = "cancelAll" -> "Failed to sign cancel all orders: "
      [] kind = "agent" -> "Failed to create agent: "
      [] OTHER -> ""

Reject(f, msg) == [f EXCEPT !.pc = "rejected", !.error = ErrorPrefix(f.kind) \o msg]

\* x <= 0 in JavaScript: false when x is no number
LessEqZero(x) == LET n == ToNumber(x) IN n.t = "number" /\ n.n <= 0

\* the three guards every L1 signing function opens with
L1Guards(f) ==
    IF ~Truthy(f.signer) THEN "Signer is required. Please connect your MetaMask wallet."
    ELSE IF ~Truthy(f.userAddress)
    THEN "User address is required. Please connect your MetaMask wallet."
    ELSE IF ~Truthy(f.chainId)
    THEN "Chain ID is required. Please ensure your wallet is connected to a network."
    ELSE ""

\* signL1Action called by a flow, then await: the flow waits for the wallet, or is
\* rejected by what actionHash threw
AskWallet(f, action, nonce, isMainnet) ==
    Let(SignL1Action(action, Null, nonce, Null, isMainnet, f.chainId), LAMBDA req :
        IF ~req.ok THEN Reject(f, req.err)
        ELSE [f EXCEPT !.pc = "awaitSig", !.action = action, !.nonce = nonce,
                       !.isMainnet = isMainnet, !.hashed = req.hash,
                       !.request = req.val, !.signRequests = @ + 1])

\* a lookup that falls back on asset 0 when the coin cannot be resolved
AssetIndexOrZero(metaData, coin) ==
    IF Truthy(metaData) /\ Truthy(Get(metaData, "coin_to_asset_index"))
       /\ HasKey(Get(metaData, "coin_to_asset_index"), coin.s)
    THEN [ok |-> TRUE, val |-> Get(Get(metaData, "coin_to_asset_index"), coin.s)]
    ELSE [ok |-> TRUE, val |-> Num(0)]

\* metaData.coin_to_asset_index[coin], or the error thrown on the way
AssetIndex(metaData, coin) ==
    IF ~Truthy(metaData) \/ ~Truthy(Get(metaData, "coin_to_asset_index"))
    THEN Thrown("Market metadata with coin_to_asset_index is required for signing")
    ELSE IF Get(Get(metaData, "coin_to_asset_index"), coin.s).t = "undefined"
    THEN Thrown("Coin " \o coin.s \o " not found in asset index map")
    ELSE [ok |-> TRUE, val |-> Get(Get(metaData, "coin_to_asset_index"), coin.s)]

\* reading an identifier in a scope: a ReferenceError when nothing binds it
Lookup(scope, name) ==
    IF HasKey(scope, name) THEN [ok |-> TRUE, val |-> Get(scope, name)]
    ELSE Thrown(name \o " is not defined")

SignedResult(f, payload) ==
    Obj(<< <<"signed", Bool(TRUE)>>, <<"payload", payload>>,
           <<"user_address", f.userAddress>> >>)

(* signOrder *)

SignOrderEnter(f) ==
    LET coin == Get(f.params, "coin")
        sz == Get(f.params, "sz")
        limit_px == Get(f.params, "limit_px")
    IN IF L1Guards(f) # "" THEN Reject(f, L1Guards(f))
       ELSE IF ~Truthy(coin) \/ LessEqZero(sz) \/ ~Truthy(limit_px) \/ LessEqZero(limit_px)
       THEN Reject(f, "Invalid order parameters")
       ELSE [f EXCEPT !.pc = "awaitMeta", !.metaRequests = @ + 1]

\* an order entry that is Gtc whatever the order type
OrderWireGtc(assetId, params) ==
    Obj(<< <<"a", assetId>>, <<"b", Get(params, "is_buy")>>,
           <<"p", Str(ToStr(Get(params, "limit_px")))>>,
           <<"s", Str(ToStr(Get(params, "sz")))>>,
           <<"r", OrElse(Get(params, "reduce_only"), Bool(FALSE))>>,
           <<"t", Obj(<< <<"limit", Obj(<< <<"tif", Str("Gtc")>> >>)>> >>)>> >>)

OrderWire(assetId, params) ==
    LET cloid == Get(params, "cloid")
        wire == Obj(<< <<"a", assetId>>,
                       <<"b", Get(params, "is_buy")>>,
                       <<"p", Str(ToStr(Get(params, "limit_px")))>>,
                       <<"s", Str(ToStr(Get(params, "sz")))>>,
                       <<"r", OrElse(Get(params, "reduce_only"), Bool(FALSE))>>,
                       <<"t", Obj(<< <<"limit", Obj(<< <<"tif",
                                 Str(IF Get(params, "order_type") = Str("Market")
                                     THEN "Ioc" ELSE "Gtc")>> >>)>> >>)>> >>)
    IN IF Truthy(cloid) THEN Put(wire, "c", Str(ToStr(cloid))) ELSE wire

OrderAction(orderWire) ==
    Obj(<< <<"type", Str("order")>>, <<"orders", Arr(<<orderWire>>)>>,
           <<"grouping", Str("na")>> >>)

\* after getMarketMeta() resolved with metaData, Date.now() being t
SignOrderBuild(f, metaData, t) ==
    LET assetId == AssetIndex(metaData, Get(f.params, "coin"))
    IN IF ~assetId.ok THEN Reject(f, assetId.err)
       ELSE IF IsNullish(Get(f.params, "sz"))
       THEN Reject(f, "Cannot read properties of undefined (reading 'toString')")
       ELSE AskWallet(f, OrderAction(OrderWire(assetId.val, f.params)), Num(t),
                      IsMainnet(f.chainId))

\* after the wallet signed: the payload is bound to W and read as signedPayload
L1Payload3(f, signatureHex) ==
    Obj(<< <<"action", f.action>>, <<"nonce", f.nonce>>,
           <<"signature", SignInnerSignature(signatureHex)>> >>)

SignOrderFinish(f, signatureHex) ==
    Let(Lookup(Obj(<< <<"W", L1Payload3(f, signatureHex)>> >>), "signedPayload"),
        LAMBDA signedPayload :
            IF ~signedPayload.ok THEN Reject(f, signedPayload.err)
            ELSE [f EXCEPT !.pc = "resolved", !.payload = signedPayload.val,
                           !.result = SignedResult(f, signedPayload.val)])

(* signCancelOrder *)

CancelEntry(assetId, params) ==
    LET oid == Get(params, "oid")
        cloid == Get(params, "cloid")
        e1 == Obj(<< <<"a", assetId>> >>)
        e2 == IF Truthy(oid) THEN Put(e1, "o", oid) ELSE e1
    IN IF Truthy(cloid) THEN Put(e2, "c", Str(ToStr(cloid))) ELSE e2

CancelAction(entry) == Obj(<< <<"type", Str("cancel")>>, <<"cancels", Arr(<<entry>>)>> >>)

\* a signCancelOrder that asks the wallet without looking the coin up
SignCancelUnresolved(f) ==
    IF L1Guards(f) # "" THEN Reject(f, L1Guards(f))
    ELSE IF ~Truthy(Get(f.params, "coin"))
    THEN Reject(f, "Coin is required for cancel orders to get asset index")
    ELSE AskWallet(f, CancelAction(CancelEntry(Num(0), f.params)), Num(1),
                   IsMainnet(f.chainId))

SignCancelEnter(f) ==
    IF L1Guards(f) # "" THEN Reject(f, L1Guards(f))
    ELSE IF ~Truthy(Get(f.params, "coin"))
    THEN Reject(f, "Coin is required for cancel orders to get asset index")
    ELSE [f EXCEPT !.pc = "awaitMeta", !.metaRequests = @ + 1]

SignCancelBuild(f, metaData, t) ==
    LET assetId == AssetIndex(metaData, Get(f.params, "coin"))
    IN IF ~assetId.ok THEN Reject(f, assetId.err)
       ELSE AskWallet(f, CancelAction(CancelEntry(assetId.val, f.params)), Num(t),
                      IsMainnet(f.chainId))

SignCancelFinish(f, signatureHex) ==
    Let(L1Payload3(f, signatureHex), LAMBDA cancelPayload :
        [f EXCEPT !.pc = "resolved", !.payload = cancelPayload,
                  !.result = SignedResult(f, cancelPayload)])

(* signCancelAllOrders *)

SignCancelAllEnter(f, t) ==
    LET a == AddressToIntStr(f.userAddress.s)
    IN IF L1Guards(f) # "" THEN Reject(f, L1Guards(f))
       ELSE IF ~a.ok THEN Reject(f, a.err)
       ELSE AskWallet(f, CancelAction(Obj(<< <<"a", Str(a.val)>> >>)), Num(t),
                      IsMainnet(f.chainId))

SignCancelAllFinish(f, signatureHex) ==
    Let(L1Payload3(f, signatureHex), LAMBDA cancelAllPayload :
        [f EXCEPT !.pc = "resolved", !.payload = cancelAllPayload,
                  !.result = Put(SignedResult(f, cancelAllPayload), "coin",
                                 OrElse(Get(f.params, "coin"), Null))])

----------------------------------------------------------------------------
(* User-signed actions: agent approval and withdrawal *)

\* a === b
StrictEq(a, b) == a.t # "NaN" /\ a = b

BaseUrl(isMainnet) ==
    IF isMainnet THEN "https://api.hyperliquid.xyz" ELSE "https://api.hyperliquid-testnet.xyz"

getHyperliquidBaseUrl(chainId) ==
    LET isMainnet == chainId = Str("1") \/ chainId = Num(1)
                       \/ chainId = Str("42161") \/ chainId = Num(42161)
    IN BaseUrl(isMainnet)

\* let networkChainId = chainId; a string is parsed in base 10
NetworkChainId(chainId) == IF chainId.t = "string" THEN ParseInt(chainId.s, 10) ELSE chainId

\* if (!networkChainId && signer.provider): the chain id is asked of the provider
NeedsProvider(networkChainId, signer) == ~Truthy(networkChainId) /\ signer.provider

UserSignedDomain(chainId) ==
    Obj(<< <<"name", Str("HyperliquidSignTransaction")>>, <<"version", Str("1")>>,
           <<"chainId", chainId>>, <<"verifyingContract", Str(ZeroAddress)>> >>)

userSignedPayload(primaryType, payloadTypes, action, networkChainId) ==
    LET chainId == OrElse(networkChainId, Num(42161))
    IN Obj(<< <<"domain", UserSignedDomain(chainId)>>,
              <<"types", Obj(<< <<primaryType, payloadTypes>> >>)>>,
              <<"primaryType", Str(primaryType)>>,
              <<"message", action>> >>)

\* signUserSignedAction up to signer.signTypedData, the chain id being known: the
\* action as it is after the two fields are set on it, and the request to the wallet
SignUserSignedAction(action, payloadTypes, primaryType, isMainnet, actualChainId) ==
    LET action2 == Put(Put(action, "signatureChainId",
                           Str(IF isMainnet THEN "0xa4b1" ELSE "0x66eee")),
                       "hyperliquidChain", Str(IF isMainnet THEN "Mainnet" ELSE "Testnet"))
        data == userSignedPayload(primaryType, payloadTypes, action2, actualChainId)
        cleanTypes == Obj(<< <<primaryType, payloadTypes>> >>)
        domain == IF ~StrictEq(Get(Get(data, "domain"), "chainId"), actualChainId)
                  THEN Put(Get(data, "domain"), "chainId", actualChainId)
                  ELSE Get(data, "domain")
    IN [action |-> action2,
        request |-> TypedDataRequest(domain, cleanTypes, Get(data, "message"))]

Field(name, type) == Obj(<< <<"name", Str(name)>>, <<"type", Str(type)>> >>)

(* createAgentOnFrontend *)

ApproveAgentTypes ==
    Arr(<< Field("hyperliquidChain", "string"), Field("agentAddress", "address"),
           Field("agentName", "string"), Field("nonce", "uint64") >>)

ApproveAgentPrimaryType == "HyperliquidTransaction:ApproveAgent"

\* what ethers.Wallet.createRandom() can return
AgentWallets ==
    {[address |-> "0x1111111111111111111111111111111111111111",
      privateKey |-> "0x" \o "2222222222222222222222222222222222222222222222222222222222222222"]}

\* the call of signUserSignedAction and the await on the wallet
AgentSign(f, networkChainId) ==
    LET req == SignUserSignedAction(f.action, ApproveAgentTypes, ApproveAgentPrimaryType,
                                    f.isMainnet, networkChainId)
    IN [f EXCEPT !.pc = "awaitSig", !.action = req.action, !.request = req.request,
                 !.signRequests = @ + 1]

CreateAgentEnter(f, agentWallet, t) ==
    LET agentName == Get(f.params, "agentName")
        isMainnet == IsMainnet(f.chainId)
        action == Obj(<< <<"type", Str("approveAgent")>>,
                         <<"agentAddress", Str(agentWallet.address)>>,
                         <<"agentName", OrElse(agentName, Str(""))>>,
                         <<"nonce", Num(t)>> >>)
        networkChainId == NetworkChainId(f.chainId)
        f2 == [f EXCEPT !.isMainnet = isMainnet, !.baseUrl = BaseUrl(isMainnet),
                        !.nonce = Num(t), !.action = action,
                        !.params = Put(Put(@, "agentWallet", Str(agentWallet.address)),
                                       "agentKey", Str(agentWallet.privateKey))]
    IN IF ~Truthy(f.signer) THEN Reject(f, "Signer is required")
       ELSE IF ~Truthy(f.userAddress) THEN Reject(f, "User address is required")
       ELSE IF NeedsProvider(networkChainId, f.signer)
       THEN [f2 EXCEPT !.pc = "awaitNetwork", !.walletCalls = @ + 1]
       ELSE AgentSign(f2, networkChainId)

\* a payload stamped with a clock read of its own, after the signature
CreateAgentFinishRestamped(f, signatureHex) ==
    [f EXCEPT !.pc = "awaitFetch", !.exchangeRequests = @ + 1,
              !.payload = Obj(<< <<"action", f.action>>,
                                 <<"signature", ParsedSignature(signatureHex)>>,
                                 <<"nonce", Num(f.nonce.n + 1)>> >>)]

\* after the wallet signed: agentName is dropped when empty, the payload is posted
CreateAgentFinish(f, signatureHex) ==
    LET action == IF ~Truthy(Get(f.params, "agentName"))
                  THEN Delete(f.action, "agentName") ELSE f.action
        signedPayload == Obj(<< <<"action", action>>,
                                <<"signature", ParsedSignature(signatureHex)>>,
                                <<"nonce", f.nonce>> >>)
    IN [f EXCEPT !.pc = "awaitFetch", !.action = action, !.payload = signedPayload,
                 !.exchangeRequests = @ + 1]

CreateAgentDone(f, response) ==
    IF ~response.ok
    THEN Reject(f, "Hyperliquid API error: " \o IntToStr(response.status) \o " - " \o response.body)
    ELSE [f EXCEPT !.pc = "resolved",
                   !.result = Obj(<< <<"status", Str("success")>>,
                                     <<"agent_address", Get(f.params, "agentWallet")>>,
                                     <<"agent_private_key", Get(f.params, "agentKey")>>,
                                     <<"user_address", f.userAddress>>,
                                     <<"agent_name", Get(f.params, "agentName")>>,
                                     <<"api_response", Str(response.body)>> >>)]

(* withdrawUSDC *)

\* a types object that also declares the domain
WithdrawTypesWithDomain ==
    Obj(<< <<"EIP712Domain", Arr(<< Field("name", "string"), Field("chainId", "uint256") >>)>>,
           <<"HyperliquidTransaction:Withdraw",
             Arr(<< Field("hyperliquidChain", "string"), Field("destination", "string"),
                    Field("amount", "string"), Field("time", "uint64") >>)>> >>)

WithdrawTypes ==
    Obj(<< <<"HyperliquidTransaction:Withdraw",
             Arr(<< Field("hyperliquidChain", "string"), Field("destination", "string"),
                    Field("amount", "string"), Field("time", "uint64") >>)>> >>)

\* ethers.getAddress: throws unless the argument is 0x and 40 hex digits; the
\* checksum capitalises letters only, and lower-cases the rest
IsHexChar(c) == IndexOf(c, HexLower) > 0 \/ IndexOf(c, HexUpper) > 0

GetAddress(x) ==
    IF x.t = "string" /\ Len(x.s) = 2 + 2 * AddressBytesLen /\ StartsWith(x.s, "0x")
       /\ \A i \in 3..Len(x.s) : IsHexChar(CharAt(x.s, i))
    THEN [ok |-> TRUE, val |-> Str(Hexlify(GetBytes(x.s)))]
    ELSE Thrown("invalid address")

\* a signature request whose message is the whole wire action
WithdrawSignWhole(f, networkChainId) ==
    [f EXCEPT !.pc = "awaitSig", !.signRequests = @ + 1,
              !.request = TypedDataRequest(UserSignedDomain(networkChainId),
                                           WithdrawTypes, f.action)]

WithdrawSign(f, networkChainId) ==
    LET message == Obj(<< <<"hyperliquidChain", Get(f.action, "hyperliquidChain")>>,
                          <<"destination", Get(f.action, "destination")>>,
                          <<"amount", Get(f.action, "amount")>>,
                          <<"time", Get(f.action, "time")>> >>)
    IN [f EXCEPT !.pc = "awaitSig", !.signRequests = @ + 1,
                 !.request = TypedDataRequest(UserSignedDomain(networkChainId),
                                              WithdrawTypes, message)]

WithdrawEnter(f, t) ==
    IF IsNullish(f.signer)
    THEN Reject(f, "Cannot read properties of null (reading 'getAddress')")
    ELSE [f EXCEPT !.pc = "awaitAddress", !.nonce = Num(t), !.walletCalls = @ + 1]

\* after signer.getAddress() resolved
WithdrawBuild(f, address) ==
    LET destinationAddress == OrElse(Get(f.params, "destination"), Str(address))
        amountStr == ToStr(ToNumber(Get(f.params, "amount")))
        isMainnet == f.chainId = Str("1") \/ f.chainId = Num(1)
                       \/ f.chainId = Str("42161") \/ f.chainId = Num(42161)
        destination == GetAddress(destinationAddress)
        action == Obj(<< <<"type", Str("withdraw3")>>,
                         <<"hyperliquidChain", Str(IF isMainnet THEN "Mainnet" ELSE "Testnet")>>,
                         <<"signatureChainId", Str(IF isMainnet THEN "0xa4b1" ELSE "0x66eee")>>,
                         <<"amount", Str(amountStr)>>,
                         <<"time", f.nonce>>,
                         <<"destination", destination.val>> >>)
        networkChainId == NetworkChainId(f.chainId)
        f2 == [f EXCEPT !.isMainnet = isMainnet,
                        !.baseUrl = getHyperliquidBaseUrl(f.chainId), !.action = action]
    IN IF ~destination.ok THEN Reject(f, destination.err)
       ELSE IF NeedsProvider(networkChainId, f.signer)
       THEN [f2 EXCEPT !.pc = "awaitNetwork", !.walletCalls = @ + 1]
       ELSE WithdrawSign(f2, networkChainId)

WithdrawFinish(f, signatureHex) ==
    [f EXCEPT !.pc = "awaitFetch", !.exchangeRequests = @ + 1,
              !.payload = Obj(<< <<"action", f.action>>, <<"nonce", f.nonce>>,
                                 <<"signature", SplitSignature(signatureHex)>> >>)]

WithdrawDone(f, response) ==
    IF ~response.ok
    THEN Reject(f, "API Error (" \o IntToStr(response.status) \o "): " \o response.body)
    ELSE [f EXCEPT !.pc = "resolved", !.result = Str(response.body)]

----------------------------------------------------------------------------
(* Inputs of the exported signing functions *)

SignerInputs == {Null, Signer(TRUE), Signer(FALSE)}
L1SignerInputs == {Null, Signer(TRUE)}
AddressInputs == {Null, Str(User1)}

Params(kv) == Obj(kv)

OrderInputs ==
    {Params(<< <<"coin", coin>>, <<"is_buy", is_buy>>, <<"sz", sz>>, <<"limit_px", limit_px>>,
               <<"order_type", Str(order_type)>>, <<"reduce_only", reduce_only>>,
               <<"cloid", cloid>> >>) :
        coin \in {Str(""), Str("BTC"), Str("DOGE")},
        is_buy \in {Undefined, Bool(TRUE), Bool(FALSE)},
        sz \in {Undefined, Num(0), Num(3)},
        limit_px \in {Num(0), Num(50000)},
        order_type \in {"Limit", "Market"},
        reduce_only \in {Undefined, Bool(TRUE)},
        cloid \in {Undefined, Str("c1")}}

CancelInputs ==
    {Params(<< <<"coin", coin>>, <<"oid", oid>>, <<"cloid", cloid>> >>) :
        coin \in {Undefined, Str("BTC"), Str("DOGE")},
        oid \in {Undefined, Num(0), Num(7)},
        cloid \in {Undefined, Null, Str("c1")}}

CancelAllInputs == {Params(<< <<"coin", coin>> >>) : coin \in {Null, Str("BTC")}}

AgentInputs == {Params(<< <<"agentName", n>> >>) : n \in {Null, Str(""), Str("bot")}}

WithdrawInputs ==
    {Params(<< <<"amount", amount>>, <<"destination", destination>> >>) :
        amount \in {Str("5"), Str("abc"), Str(""), Str("-5"), Num(5), Num(0), Null},
        destination \in {Null, Str(User1), Str("0x12")}}

\* what POST /exchange can answer: the action accepted, the action refused with
\* status 200 and an error in the body, or an HTTP error
ExchangeResponses ==
    {[ok |-> TRUE, status |-> 200, body |-> "{status:ok}"],
     [ok |-> TRUE, status |-> 200, body |-> "{status:err}"],
     [ok |-> FALSE, status |-> 422, body |-> "Failed to deserialize"]}

----------------------------------------------------------------------------
(* The state when the page starts: nothing mounted, no flow in flight *)

\* how many handleCancel calls are followed at a time
MaxCancels == 2

NoHook == [account |-> Null, signer |-> Null, provider |-> Null, chainId |-> Null]

Init ==
    /\ now = 1
    /\ wallet \in {[chain |-> c, authorised |-> TRUE] : c \in WalletNetworks}
    /\ chainEvents = <<>>
    /\ hook = NoHook
    /\ conn = "unmounted"
    /\ canceling = Null
    /\ storage = Null
    /\ flow = NoFlow
    /\ h = Null
    /\ cancels = [i \in 1..MaxCancels |-> NoFlow]
    /\ acct = <<>>
    /\ lev = Null
    /\ dep = Null

env == <<wallet, chainEvents, hook, conn, canceling, storage, h, calls>>

\* the wallet's network at the moment the flow hands it the request
Stamp(f) == IF f.pc = "awaitSig" THEN [f EXCEPT !.signedOn = wallet.chain] ELSE f

(* Calls of the exported functions *)

CallSignOrder ==
    /\ flow.pc = "idle"
    /\ \E params \in OrderInputs, userAddress \in AddressInputs,
          signer \in L1SignerInputs, chainId \in ChainIdInputs :
          flow' = SignOrderEnter(Start("order", "api", params, userAddress, signer, chainId))
    /\ UNCHANGED <<now, env>>

CallSignCancelOrder ==
    /\ flow.pc = "idle"
    /\ \E params \in CancelInputs, userAddress \in AddressInputs,
          signer \in L1SignerInputs, chainId \in ChainIdInputs :
          flow' = SignCancelEnter(Start("cancel", "api", params, userAddress, signer, chainId))
    /\ UNCHANGED <<now, env>>

CallSignCancelAllOrders ==
    /\ flow.pc = "idle"
    /\ \E params \in CancelAllInputs, userAddress \in AddressInputs,
          signer \in L1SignerInputs, chainId \in ChainIdInputs, t \in now..MaxNow :
          /\ flow' = Stamp(SignCancelAllEnter(
                         Start("cancelAll", "api", params, userAddress, signer, chainId), t))
          /\ now' = t
    /\ UNCHANGED env

CallCreateAgentOnFrontend ==
    /\ flow.pc = "idle"
    /\ \E params \in AgentInputs, userAddress \in AddressInputs, signer \in SignerInputs,
          chainId \in ChainIdInputs, agentWallet \in AgentWallets, t \in now..MaxNow :
          /\ flow' = Stamp(CreateAgentEnter(
                         Start("agent", "api", params, userAddress, signer, chainId),
                         agentWallet, t))
          /\ now' = t
    /\ UNCHANGED env

\* withdrawUSDC(signer, amount, destination = null, chainId = '42161')
CallWithdrawUSDC ==
    /\ flow.pc = "idle"
    /\ \E params \in WithdrawInputs, signer \in SignerInputs,
          chainId \in ChainIdInputs \cup {Undefined}, t \in now..MaxNow :
          /\ flow' = WithdrawEnter(
                         Start("withdraw", "api", params, Null, signer,
                               IF chainId.t = "undefined" THEN Str("42161") ELSE chainId), t)
          /\ now' = t
    /\ UNCHANGED env

(* The awaited steps of a flow in flight *)

\* GET /market/meta answers
MetaResolve ==
    /\ flow.pc = "awaitMeta"
    /\ \E metaData \in MetaResponses, t \in now..MaxNow :
          /\ flow' = Stamp(IF flow.kind = "order"
                           THEN SignOrderBuild([flow EXCEPT !.meta = metaData], metaData, t)
                           ELSE SignCancelBuild([flow EXCEPT !.meta = metaData], metaData, t))
          /\ now' = t
    /\ UNCHANGED env

MetaReject ==
    /\ flow.pc = "awaitMeta"
    /\ flow' = Reject([flow EXCEPT !.failures = @ + 1], "Network Error")
    /\ UNCHANGED <<now, env>>

\* signer.getAddress() answers with the account of the wallet
AddressResolve ==
    /\ flow.pc = "awaitAddress"
    /\ flow' = Stamp(WithdrawBuild(flow, User1))
    /\ UNCHANGED <<now, env>>

AddressReject ==
    /\ flow.pc = "awaitAddress"
    /\ flow' = Reject([flow EXCEPT !.failures = @ + 1], "unknown account")
    /\ UNCHANGED <<now, env>>

\* signer.provider.getNetwork() answers with the wallet's network
NetworkResolve ==
    /\ flow.pc = "awaitNetwork"
    /\ flow' = Stamp(IF flow.kind = "agent" THEN AgentSign(flow, Num(wallet.chain))
                     ELSE WithdrawSign(flow, Num(wallet.chain)))
    /\ UNCHANGED <<now, env>>

\* getNetwork() fails: the catch falls back on 42161
NetworkReject ==
    /\ flow.pc = "awaitNetwork"
    /\ flow' = Stamp(IF flow.kind = "agent"
                     THEN AgentSign([flow EXCEPT !.failures = @ + 1], Num(42161))
                     ELSE WithdrawSign([flow EXCEPT !.failures = @ + 1], Num(42161)))
    /\ UNCHANGED <<now, env>>

\* what each flow does with the signature
Finish(f, signatureHex) ==
    CASE f.kind = "order" -> SignOrderFinish(f, signatureHex)
      [] f.kind = "cancel" -> SignCancelFinish(f, signatureHex)
      [] f.kind = "cancelAll" -> SignCancelAllFinish(f, signatureHex)
      [] f.kind = "agent" -> CreateAgentFinish(f, signatureHex)
      [] OTHER -> WithdrawFinish(f, signatureHex)

\* the user approves the request in the wallet
WalletApprove ==
    /\ flow.pc = "awaitSig"
    /\ \E signatureHex \in WalletSignatures :
          flow' = Finish([flow EXCEPT !.answer = "approved", !.signature = signatureHex],
                         signatureHex)
    /\ UNCHANGED <<now, env>>

\* a flow that asks the wallet again when the user rejected
WalletRejectRetry ==
    /\ flow.pc = "awaitSig"
    /\ flow' = [flow EXCEPT !.answer = "rejected", !.failures = @ + 1, !.signRequests = @ + 1]
    /\ UNCHANGED <<now, env>>

\* the user rejects it: signTypedData rejects
WalletReject ==
    /\ flow.pc = "awaitSig"
    /\ flow' = Reject([flow EXCEPT !.answer = "rejected", !.failures = @ + 1],
                      "user rejected action")
    /\ UNCHANGED <<now, env>>

\* POST /exchange answers
ExchangeRespond ==
    /\ flow.pc = "awaitFetch"
    /\ \E response \in ExchangeResponses :
          flow' = IF flow.kind = "agent" THEN CreateAgentDone(flow, response)
                  ELSE WithdrawDone(flow, response)
    /\ UNCHANGED <<now, env>>

\* fetch itself rejects
ExchangeFail ==
    /\ flow.pc = "awaitFetch"
    /\ flow' = Reject([flow EXCEPT !.failures = @ + 1], "Failed to fetch")
    /\ UNCHANGED <<now, env>>

\* the caller has the settled promise; the next call can be made
FlowReturn ==
    /\ flow.via = "api"
    /\ flow.pc \in {"resolved", "rejected"}
    /\ flow' = NoFlow
    /\ UNCHANGED <<now, env>>

FlowStep ==
    \/ MetaResolve \/ MetaReject
    \/ AddressResolve \/ AddressReject
    \/ NetworkResolve \/ NetworkReject
    \/ WalletApprove \/ WalletReject
    \/ ExchangeRespond \/ ExchangeFail

Next ==
    \/ CallSignOrder
    \/ CallSignCancelOrder
    \/ CallSignCancelAllOrders
    \/ CallCreateAgentOnFrontend
    \/ CallWithdrawUSDC
    \/ FlowStep
    \/ FlowReturn

Spec == Init /\ [][Next]_vars

----------------------------------------------------------------------------
(* The page: the wallet hook, the wallet's events, and the handlers of the
   Orders, CreateAgent and Withdraw screens that call the signing functions *)

\* chainChanged events the page has not handled yet: at most MaxEvents
MaxEvents == 1

\* the rows of the Orders screen
OpenOrders ==
    {Params(<< <<"coin", Str("BTC")>>, <<"oid", Num(7)>>, <<"cloid", Null>> >>),
     Params(<< <<"coin", Str("ETH")>>, <<"oid", Num(8)>>, <<"cloid", Str("c1")>> >>)}

\* the text of the name and amount fields
AgentNameInputs == {"", "bot"}
AmountInputs == {"", "5", "abc"}
\* hyperliquidBalance: not loaded, or the available balance
BalanceInputs == {Null, Num(10)}

\* what the browser keeps under 'hyperliquid_agent'
saveAgent(userAddress, agentAddress, agentPrivateKey, agentName, t) ==
    Obj(<< <<"user_address", userAddress>>, <<"agent_address", agentAddress>>,
           <<"agent_private_key", agentPrivateKey>>, <<"agent_name", agentName>>,
           <<"created_at", Num(t)>> >>)

\* isConnected: !!account
IsConnected == Truthy(hook.account)

\* network.chainId.toString()
ChainIdString(chain) == Str(IntToStr(chain))

(* useWallet *)

\* the components mount: checkConnection asks the wallet for its accounts
Mount ==
    /\ conn = "unmounted"
    /\ conn' = "getAccount"
    /\ UNCHANGED <<now, wallet, chainEvents, hook, canceling, storage, flow, h, calls>>

\* getCurrentAccount() answers: the account, signer and provider are set and the
\* network is asked for, or nothing is connected
CheckConnectionAccount ==
    /\ conn = "getAccount"
    /\ IF wallet.authorised
       THEN /\ hook' = [hook EXCEPT !.account = Str(User1), !.signer = Signer(TRUE),
                                    !.provider = Str("provider")]
            /\ conn' = "getNetwork"
       ELSE /\ conn' = "ready"
            /\ UNCHANGED hook
    /\ UNCHANGED <<now, wallet, chainEvents, canceling, storage, flow, h, calls>>

\* provider.getNetwork() answers
CheckConnectionNetwork ==
    /\ conn = "getNetwork"
    /\ hook' = [hook EXCEPT !.chainId = ChainIdString(wallet.chain)]
    /\ conn' = "ready"
    /\ UNCHANGED <<now, wallet, chainEvents, canceling, storage, flow, h, calls>>

\* provider.getNetwork() fails: the catch logs, the chain id stays unset
CheckConnectionFail ==
    /\ conn = "getNetwork"
    /\ conn' = "ready"
    /\ UNCHANGED <<now, wallet, chainEvents, hook, canceling, storage, flow, h, calls>>

\* connect(), offered while nothing is connected: connectWallet() is awaited
Connect ==
    /\ conn = "ready"
    /\ ~IsConnected
    /\ conn' = "connecting"
    /\ UNCHANGED <<now, wallet, chainEvents, hook, canceling, storage, flow, h, calls>>

ConnectResolve ==
    /\ conn = "connecting"
    /\ hook' = [account |-> Str(User1), signer |-> Signer(TRUE),
                provider |-> Str("provider"), chainId |-> ChainIdString(wallet.chain)]
    /\ wallet' = [wallet EXCEPT !.authorised = TRUE]
    /\ conn' = "ready"
    /\ UNCHANGED <<now, chainEvents, canceling, storage, flow, h, calls>>

\* the user rejects the connection request
ConnectReject ==
    /\ conn = "connecting"
    /\ conn' = "ready"
    /\ UNCHANGED <<now, wallet, chainEvents, hook, canceling, storage, flow, h, calls>>

\* disconnect(), offered while an account is connected
disconnect ==
    /\ IsConnected
    /\ hook' = NoHook
    /\ UNCHANGED <<now, wallet, chainEvents, conn, canceling, storage, flow, h, calls>>

(* The wallet's network *)

\* the user switches the network in the wallet; the wallet emits chainChanged
\* with the chain id in hex
WalletSwitchNetwork ==
    /\ conn # "unmounted"
    /\ Len(chainEvents) < MaxEvents
    /\ \E c \in WalletNetworks \ {wallet.chain} :
          /\ wallet' = [wallet EXCEPT !.chain = c]
          /\ chainEvents' = Append(chainEvents, "0x" \o NatToHex(c))
    /\ UNCHANGED <<now, hook, conn, canceling, storage, flow, h, calls>>

\* handleChainChanged: setChainId(parseInt(chainIdHex, 16).toString()), then
\* window.location.reload(): every component starts over with the state of a
\* fresh page, local storage stays
handleChainChanged ==
    /\ conn # "unmounted"
    /\ chainEvents # <<>>
    /\ chainEvents' = Tail(chainEvents)
    /\ hook' = NoHook
    /\ canceling' = Null
    /\ flow' = NoFlow
    /\ conn' = "getAccount"
    /\ UNCHANGED <<now, wallet, storage, h, calls>>

(* The handlers of the screens *)

\* a > b in JavaScript: false when either is no number
Greater(a, b) == a.t = "number" /\ b.t = "number" /\ a.n > b.n

\* handleCancel(order): the guards, setCanceling(order.oid), then signCancelOrder
handleCancel ==
    /\ flow.pc = "idle"
    /\ conn # "unmounted"
    /\ Truthy(hook.account) /\ IsConnected
    /\ Truthy(hook.signer) /\ Truthy(hook.chainId)
    /\ \E order \in OpenOrders :
          /\ canceling' = Get(order, "oid")
          /\ flow' = SignCancelEnter(Start("cancel", "ui", order, hook.account,
                                           hook.signer, hook.chainId))
    /\ UNCHANGED <<now, wallet, chainEvents, hook, conn, storage, h, calls>>

\* handleCancelAll(): the guards, the confirmation, then signCancelAllOrders
handleCancelAll ==
    /\ flow.pc = "idle"
    /\ conn # "unmounted"
    /\ Truthy(hook.account) /\ IsConnected
    /\ Truthy(hook.signer) /\ Truthy(hook.chainId)
    /\ \E t \in now..MaxNow :
          /\ flow' = Stamp(SignCancelAllEnter(
                         Start("cancelAll", "ui", Params(<< <<"coin", Null>> >>),
                               hook.account, hook.signer, hook.chainId), t))
          /\ now' = t
    /\ UNCHANGED env

\* handleCreateAgent(e): the guards, then createAgentOnFrontend(signer, account,
\* chainId, agentName || null)
handleCreateAgent ==
    /\ flow.pc = "idle"
    /\ conn # "unmounted"
    /\ Truthy(hook.account) /\ IsConnected
    /\ Truthy(hook.signer)
    /\ Truthy(hook.chainId)
    /\ \E agentName \in AgentNameInputs, agentWallet \in AgentWallets, t \in now..MaxNow :
          /\ flow' = Stamp(CreateAgentEnter(
                         Start("agent", "ui",
                               Params(<< <<"agentName", OrElse(Str(agentName), Null)>> >>),
                               hook.account, hook.signer, hook.chainId),
                         agentWallet, t))
          /\ now' = t
    /\ UNCHANGED env

\* handleWithdraw(e): the guards on the account, the amount and the balance, then
\* withdrawUSDC(signer, amount, account, chainId)
handleWithdraw ==
    /\ flow.pc = "idle"
    /\ conn # "unmounted"
    /\ Truthy(hook.account) /\ Truthy(hook.signer)
    /\ \E amount \in AmountInputs, available \in BalanceInputs, t \in now..MaxNow :
          /\ Truthy(Str(amount)) /\ ~LessEqZero(ParseFloat(Str(amount)))
          /\ ~(Truthy(available) /\ Greater(ParseFloat(Str(amount)), available))
          /\ flow' = WithdrawEnter(
                         Start("withdraw", "ui",
                               Params(<< <<"amount", Str(amount)>>,
                                         <<"destination", hook.account>> >>),
                               Null, hook.signer, hook.chainId), t)
          /\ now' = t
    /\ UNCHANGED env

(* What a handler does when the signing function has settled *)

\* after the await on the signing function: the backend is asked to cancel, or
\* the agent is saved, or the withdrawal is reported
AfterSigned(f, t) ==
    CASE f.kind \in {"cancel", "cancelAll"} ->
            [f EXCEPT !.pc = "awaitBackend", !.backendRequests = @ + 1]
      [] f.kind = "agent" /\ Get(f.result, "status") = Str("success") ->
            [f EXCEPT !.pc = "done", !.saves = @ + 1]
      [] OTHER -> [f EXCEPT !.pc = "done"]

\* a handler that goes on to the backend whatever the signing function did
PostAnyway(f) == [f EXCEPT !.pc = "awaitBackend", !.backendRequests = @ + 1]

\* the catch of a handler: the error is shown, nothing else is done
AfterFailed(f) == [f EXCEPT !.pc = "done"]

HandlerResume ==
    /\ flow.via = "ui"
    /\ flow.pc = "resolved"
    /\ flow' = AfterSigned(flow, now)
    /\ storage' = IF flow.kind = "agent" /\ Get(flow.result, "status") = Str("success")
                  THEN saveAgent(Get(flow.result, "user_address"),
                                 Get(flow.result, "agent_address"),
                                 Get(flow.result, "agent_private_key"),
                                 Get(flow.result, "agent_name"), now)
                  ELSE storage
    /\ UNCHANGED <<now, wallet, chainEvents, hook, conn, canceling, h, calls>>

\* catch and finally: setCanceling(null) in handleCancel
HandlerCatch ==
    /\ flow.via = "ui"
    /\ flow.pc = "rejected"
    /\ flow' = AfterFailed(flow)
    /\ canceling' = IF flow.kind = "cancel" THEN Null ELSE canceling
    /\ UNCHANGED <<now, wallet, chainEvents, hook, conn, storage, h, calls>>

\* POST /orders/cancel or /orders/cancel-all answers; fetchOrders() is awaited
BackendRespond ==
    /\ flow.pc = "awaitBackend"
    /\ flow' = [flow EXCEPT !.pc = "awaitRefresh"]
    /\ UNCHANGED <<now, env>>

\* the backend request fails: the handler's catch and finally
BackendFail ==
    /\ flow.pc = "awaitBackend"
    /\ flow' = AfterFailed(flow)
    /\ canceling' = IF flow.kind = "cancel" THEN Null ELSE canceling
    /\ UNCHANGED <<now, wallet, chainEvents, hook, conn, storage, h, calls>>

\* fetchOrders() is done, and the finally of handleCancel
RefreshDone ==
    /\ flow.pc = "awaitRefresh"
    /\ flow' = [flow EXCEPT !.pc = "done"]
    /\ canceling' = IF flow.kind = "cancel" THEN Null ELSE canceling
    /\ UNCHANGED <<now, wallet, chainEvents, hook, conn, storage, h, calls>>

\* the handler has returned
HandlerEnd ==
    /\ flow.pc = "done"
    /\ flow' = NoFlow
    /\ UNCHANGED <<now, env>>

NextUI ==
    \/ Mount
    \/ CheckConnectionAccount \/ CheckConnectionNetwork \/ CheckConnectionFail
    \/ Connect \/ ConnectResolve \/ ConnectReject
    \/ disconnect
    \/ WalletSwitchNetwork
    \/ handleChainChanged
    \/ handleCancel
    \/ handleCancelAll
    \/ handleCreateAgent
    \/ handleWithdraw
    \/ FlowStep
    \/ HandlerResume \/ HandlerCatch
    \/ BackendRespond \/ BackendFail
    \/ RefreshDone
    \/ HandlerEnd

SpecUI == Init /\ [][NextUI]_vars

----------------------------------------------------------------------------
(* Properties of the signing flows *)

InFlow(kind) == flow.kind = kind
Settled == flow.pc \in {"resolved", "rejected"}
Asked == flow.request # Null
Domain == Get(flow.request, "domain")
Message == Get(flow.request, "message")

\* C1: a signOrder call with signer, user address, chain id, valid parameters and a
\* known coin, whose signature request the wallet approved, resolves with
\* {signed: true, payload, user_address}, payload being {action, nonce, signature}
\* with the action and the nonce that were hashed; it does not fail
C1_OrderResolves ==
    (InFlow("order") /\ flow.answer = "approved") =>
        /\ flow.pc = "resolved"
        /\ Keys(flow.result) = {"signed", "payload", "user_address"}
        /\ Get(flow.result, "signed") = Bool(TRUE)
        /\ Get(flow.result, "user_address") = flow.userAddress
        /\ Keys(Get(flow.result, "payload")) = {"action", "nonce", "signature"}
        /\ Get(Get(flow.result, "payload"), "action") = flow.action
        /\ Get(Get(flow.result, "payload"), "nonce") = flow.nonce

\* C2: when the wallet rejects the signature request of a cancel, cancel-all,
\* approve-agent or withdraw flow, the signing function rejects and the handler
\* stops: no payload is assembled, no result is returned, nothing is sent to the
\* exchange or to the backend, and no agent is saved
C2_RejectedSendsNothing ==
    (flow.kind \in {"cancel", "cancelAll", "agent", "withdraw"} /\ flow.answer = "rejected") =>
        /\ flow.pc \in {"rejected", "done"}
        /\ flow.payload = Null
        /\ flow.result = Null
        /\ flow.exchangeRequests = 0
        /\ flow.backendRequests = 0
        /\ flow.saves = 0

\* C2 witness: the wallet rejected the approval of an agent started from the
\* CreateAgent screen, and the handler has run its catch
C2_Witness ==
    /\ InFlow("agent") /\ flow.via = "ui"
    /\ flow.answer = "rejected"
    /\ flow.signRequests = 1
    /\ flow.pc = "done"

\* C3: whenever a flow has asked the wallet to sign, the chainId of the domain it
\* handed over is the chain id of the network the wallet was on at that moment,
\* also when the wallet changed its network after the handler read the hook
C3_DomainIsActiveChain ==
    Asked => Get(Domain, "chainId") = Num(flow.signedOn)

\* the chain id is 1 or 42161, as a number or as a decimal string
OnMainnet(chainId) ==
    LET n == ToNumber(chainId) IN n.t = "number" /\ n.n \in {1, 42161}
Pick(flag, a, b) == IF flag THEN a ELSE b

\* C4: the mainnet flag of a flow is true exactly when its chain id is 1 or 42161,
\* and that one flag decides the base URL, the phantom agent source,
\* hyperliquidChain and signatureChainId of the flow: no flow mixes a mainnet
\* value with a testnet value
C4_MainnetRule ==
    Asked =>
        /\ flow.isMainnet = OnMainnet(flow.chainId)
        /\ flow.kind \in {"order", "cancel", "cancelAll"} =>
              Get(Message, "source") = Str(Pick(OnMainnet(flow.chainId), "a", "b"))
        /\ flow.kind \in {"agent", "withdraw"} =>
              /\ flow.baseUrl = Pick(OnMainnet(flow.chainId), "https://api.hyperliquid.xyz",
                                     "https://api.hyperliquid-testnet.xyz")
              /\ Get(flow.action, "hyperliquidChain")
                    = Str(Pick(OnMainnet(flow.chainId), "Mainnet", "Testnet"))
              /\ Get(flow.action, "signatureChainId")
                    = Str(Pick(OnMainnet(flow.chainId), "0xa4b1", "0x66eee"))

\* C4 witness: an agent approval on chain 421614 asked the wallet with the testnet
\* values
C4_Witness ==
    /\ InFlow("agent") /\ Asked
    /\ flow.chainId = Str("421614")
    /\ ~flow.isMainnet
    /\ Get(flow.action, "hyperliquidChain") = Str("Testnet")

\* the inputs the flows are to refuse: a missing signer, user address, chain id or
\* coin, a size or price that is no positive number, a coin the market does not
\* list, an amount that is no positive number
Positive(x) == LET n == ToNumber(x) IN n.t = "number" /\ n.n > 0
Missing(x) == ~Truthy(x)
ListedCoins == {"BTC", "ETH"}
Param(k) == Get(flow.params, k)
InvalidInput ==
    \/ Missing(flow.signer)
    \/ flow.kind \in {"order", "cancel", "cancelAll", "agent"}
          /\ (Missing(flow.userAddress) \/ Missing(flow.chainId))
    \/ flow.kind \in {"order", "cancel"}
          /\ (Missing(Param("coin")) \/ Param("coin").s \notin ListedCoins)
    \/ InFlow("order")
          /\ (Param("sz").t # "number" \/ ~Positive(Param("sz")) \/ ~Positive(Param("limit_px")))
    \/ InFlow("withdraw") /\ ~Positive(Param("amount"))

\* C6: a flow with an invalid input is aborted before any network call and any
\* wallet interaction: it never reaches the market-metadata request, a call of the
\* wallet, the signature request or the exchange submission
C6_InvalidBeforeIO ==
    (flow.kind # "none" /\ InvalidInput) =>
        /\ flow.metaRequests = 0
        /\ flow.walletCalls = 0
        /\ flow.signRequests = 0
        /\ flow.exchangeRequests = 0

\* no key of x, at any depth, holds null or undefined
RECURSIVE NoNulls(_)
NoNulls(x) ==
    CASE x.t \in {"null", "undefined"} -> FALSE
      [] x.t = "array" -> \A i \in 1..Len(x.a) : NoNulls(x.a[i])
      [] x.t = "object" -> \A i \in 1..Len(x.o) : NoNulls(x.o[i][2])
      [] OTHER -> TRUE
Supplied(x) == ~IsNullish(x)
Entry(list) == Get(flow.action, list).a[1]

\* C9: optional fields are omitted, never null: an order entry has key c exactly
\* when a client order id was supplied, a cancel entry has key o exactly when an
\* order id was supplied and key c exactly when a client order id was supplied, no
\* key of an action or payload holds null or undefined, and the payload has
\* exactly the keys action, nonce, signature
C9_OmittedNeverNull ==
    /\ (InFlow("order") /\ Asked) =>
          HasKey(Entry("orders"), "c") = Supplied(Param("cloid"))
    /\ (InFlow("cancel") /\ Asked) =>
          /\ HasKey(Entry("cancels"), "o") = Supplied(Param("oid"))
          /\ HasKey(Entry("cancels"), "c") = Supplied(Param("cloid"))
    /\ Asked => NoNulls(flow.action)
    /\ flow.payload # Null =>
          /\ NoNulls(flow.payload)
          /\ flow.kind \in {"order", "cancel", "cancelAll"} =>
                Keys(flow.payload) = {"action", "nonce", "signature"}

Submitted == InFlow("agent") /\ flow.payload # Null

\* C10: with an empty or null agent name the action of the submitted payload has
\* no agentName key; a non-empty name is carried unchanged; hyperliquidChain is
\* "Mainnet" when the chain id is 42161
C10_AgentNameOmitted ==
    Submitted =>
        /\ Param("agentName") \in {Null, Str("")} =>
              ~HasKey(Get(flow.payload, "action"), "agentName")
        /\ Param("agentName") \notin {Null, Str("")} =>
              Get(Get(flow.payload, "action"), "agentName") = Param("agentName")
        /\ flow.chainId \in {Num(42161), Str("42161")} =>
              Get(Get(flow.payload, "action"), "hyperliquidChain") = Str("Mainnet")

\* C10 witness: an approval with the empty name was submitted on chain 42161
C10_Witness ==
    /\ Submitted
    /\ Param("agentName") = Str("")
    /\ flow.chainId = Str("42161")
    /\ flow.exchangeRequests = 1
    /\ Keys(Get(flow.payload, "action"))
          = {"type", "agentAddress", "nonce", "signatureChainId", "hyperliquidChain"}

UserSigned == flow.kind \in {"agent", "withdraw"}
Types == Get(flow.request, "types")
PrimaryType ==
    IF InFlow("agent") THEN "HyperliquidTransaction:ApproveAgent"
    ELSE "HyperliquidTransaction:Withdraw"
\* the names of the fields a type declares
Declared(fields) == {Get(fields.a[i], "name").s : i \in 1..Len(fields.a)}

\* C11: the message a user-signed flow hands to the wallet has exactly the fields
\* its primary type declares: every declared field and no other
C11_MessageMatchesType ==
    (UserSigned /\ Asked) => Keys(Message) = Declared(Get(Types, PrimaryType))

\* C12: the types object a user-signed flow hands to the wallet has exactly one
\* key, the primary type name of the transaction, and no EIP712Domain key
C12_OnePrimaryType ==
    (UserSigned /\ Asked) =>
        /\ Keys(Types) = {PrimaryType}
        /\ ~HasKey(Types, "EIP712Domain")

\* C12 witness: a withdrawal asked the wallet with the single type Withdraw
C12_Witness ==
    /\ InFlow("withdraw") /\ Asked
    /\ flow.signRequests = 1
    /\ Keys(Types) = {"HyperliquidTransaction:Withdraw"}

\* C13: the message withdrawUSDC signs has exactly the fields hyperliquidChain,
\* destination, amount and time, each equal to that field of the wire action;
\* type and signatureChainId are in the wire action only
C13_WithdrawMessage ==
    (InFlow("withdraw") /\ Asked) =>
        /\ Keys(Message) = {"hyperliquidChain", "destination", "amount", "time"}
        /\ \A k \in Keys(Message) : Get(Message, k) = Get(flow.action, k)
        /\ {"type", "signatureChainId"} \subseteq Keys(flow.action)
        /\ flow.payload # Null => Get(flow.payload, "action") = flow.action

\* C13 witness: a withdrawal was signed and its wire action, with type and
\* signatureChainId, was posted
C13_Witness ==
    /\ InFlow("withdraw") /\ flow.exchangeRequests = 1
    /\ Get(Get(flow.payload, "action"), "type") = Str("withdraw3")
    /\ ~HasKey(Message, "type")

\* the asset index the metadata answer of the flow holds for the coin
MetaIndex == Get(Get(flow.meta, "coin_to_asset_index"), Param("coin").s)
Tif(entry) == Get(Get(Get(entry, "t"), "limit"), "tif")

MetaSettled == flow.metaRequests = 1 /\ flow.pc # "awaitMeta"
\* the answer resolves the coin of the flow to an asset index
Resolvable ==
    /\ flow.meta.t = "object"
    /\ HasKey(flow.meta, "coin_to_asset_index")
    /\ HasKey(Get(flow.meta, "coin_to_asset_index"), Param("coin").s)

\* C15: in signOrder and signCancelOrder, when the metadata request fails, or
\* its answer has no asset-index map, or the map has no entry for the coin, the
\* flow rejects, and neither actionHash nor signTypedData was called
C15_UnresolvedCoinAborts ==
    (flow.kind \in {"order", "cancel"} /\ MetaSettled /\ ~Resolvable) =>
        /\ flow.pc = "rejected"
        /\ flow.error # ""
        /\ flow.hashed = Null
        /\ flow.request = Null
        /\ flow.signRequests = 0

\* C15 witness: a cancel for DOGE, which the answered map does not list, is
\* rejected
C15_Witness ==
    /\ InFlow("cancel") /\ MetaSettled
    /\ Param("coin") = Str("DOGE")
    /\ flow.meta = MetaOk
    /\ flow.pc = "rejected"

L1Flow == flow.kind \in {"order", "cancel", "cancelAll"}

C19_DomainChainIdDefinite ==
    (InFlow("agent") /\ Asked) =>
        Let(NetworkChainId(flow.chainId), LAMBDA networkChainId :
            /\ Get(Domain, "chainId").t = "number"
            /\ Truthy(networkChainId) => Get(Domain, "chainId") = networkChainId
            /\ (~Truthy(networkChainId) /\ ~flow.signer.provider) =>
                   Get(Domain, "chainId") = Num(42161))

\* C20: a flow one of whose steps failed is rejected with a message; it does
\* not go on to ask the wallet, to post or to resolve
C20_FailureRejects ==
    flow.failures > 0 => (flow.pc = "rejected" /\ flow.error # "")

\* what a signOrder or signCancelOrder flow has done so far came in the order
\* of the steps: the asset index, the hash, the envelope, the wallet, the payload
StepsInOrder ==
    flow.kind \in {"order", "cancel"} =>
        /\ flow.hashed # Null => (MetaSettled /\ Resolvable)
        /\ flow.request # Null => flow.hashed # Null
        /\ flow.signRequests > 0 => flow.request # Null
        /\ flow.signature # "" => flow.signRequests > 0
        /\ flow.payload # Null => flow.signature # ""

\* C21: in signOrder and signCancelOrder the asset index is resolved before
\* the action is hashed, the hash is there before the envelope, the envelope
\* before the wallet is asked, and the signature before the payload; a flow
\* that failed takes no further step: it stays as it is until its caller has it
C21_StepOrder ==
    [][/\ StepsInOrder'
       /\ (flow.kind \in {"order", "cancel"} /\ flow.pc = "rejected") => flow' = NoFlow]_vars

\* C21 witness: a cancel went through all five steps
C21_Witness ==
    /\ flow.kind = "cancel" /\ MetaSettled /\ Resolvable /\ flow.hashed # Null
    /\ flow.request # Null /\ flow.signRequests = 1 /\ flow.signature = Sig1
    /\ flow.pc = "resolved" /\ flow.payload # Null

\* C22: a signing flow calls signTypedData at most once, whether the wallet
\* approved, the wallet rejected or a later step failed
C22_SignedAtMostOnce ==
    /\ flow.signRequests <= 1
    /\ flow.answer # "none" => flow.signRequests = 1

\* C22 witness: the wallet approved, the request to the exchange failed, and
\* the flow is rejected having asked the wallet once
C22_Witness ==
    /\ flow.kind \in {"agent", "withdraw"} /\ flow.answer = "approved"
    /\ flow.exchangeRequests = 1 /\ flow.pc = "rejected"
    /\ flow.signRequests = 1

\* the exchange accepted the approveAgent action the wallet had signed
AgentAccepted ==
    /\ flow.answer = "approved" /\ flow.exchangeRequests = 1
    /\ flow.result # Null
    /\ Get(flow.result, "api_response") = Str("{status:ok}")

\* C25: handleCreateAgent has called saveAgent only when the wallet signed the
\* approval and the exchange accepted the action
C25_SavedOnlyWhenAccepted ==
    (flow.kind = "agent" /\ flow.saves > 0) => AgentAccepted


\* the message of the request the wallet was asked to sign
SignedMessage == Get(flow.request, "message")

\* C30: the nonce at the top of a payload of createAgentOnFrontend is
\* action.nonce and the nonce of the signed message; the nonce at the top of a
\* payload of withdrawUSDC is action.time and the time of the signed message
C30_PayloadNonceSigned ==
    (flow.kind \in {"agent", "withdraw"} /\ flow.payload # Null) =>
        Let(IF flow.kind = "agent" THEN "nonce" ELSE "time", LAMBDA field :
            /\ flow.request # Null
            /\ Get(flow.payload, "nonce").t = "number"
            /\ Get(flow.payload, "nonce") = Get(Get(flow.payload, "action"), field)
            /\ Get(flow.payload, "nonce") = Get(SignedMessage, field))

\* C30 witness: a payload of createAgentOnFrontend was posted with the nonce
\* the wallet signed
C30_Witness ==
    /\ flow.kind = "agent" /\ flow.payload # Null /\ flow.exchangeRequests = 1
    /\ flow.signature = Sig1
    /\ Get(flow.payload, "nonce") = Get(SignedMessage, "nonce")

----------------------------------------------------------------------------
(* Direct calls of the encoder: actionHash and signL1Action on drawn arguments *)

\* BigInt arguments have up to MaxBigLen bytes: 2^64 and more are among them
MaxBigLen == 9

Ramp(n, hi, lo) == [i \in 1..n |-> IF i = 1 THEN hi ELSE lo]
BigInputs ==
    {Big(neg, Ramp(n, hi, lo)) :
        neg \in BOOLEAN, n \in 1..MaxBigLen, hi \in {1, 255}, lo \in {0, 255}}
NonceInputs == {Num(-1), Num(0), Num(1), Num(255), Num(256), Num(65536)} \cup BigInputs
ExpiryInputs ==
    {Null, Undefined, Num(-1), Num(0), Num(7), Big(TRUE, <<1>>),
     Big(FALSE, Ramp(MaxBigLen, 1, 0))}
VaultInputs == {Null, Undefined, Str(User1)}
HashActions ==
    {Obj(<<>>),
     CancelAction(Obj(<< <<"a", Num(0)>>, <<"o", Num(7)>> >>)),
     OrderAction(Obj(<< <<"a", Num(1)>>, <<"b", Bool(TRUE)>>, <<"p", Str("50000")>>,
                        <<"s", Str("3")>>, <<"r", Bool(FALSE)>> >>))}

CallActionHash ==
    /\ h = Null
    /\ \E action \in HashActions, vaultAddress \in VaultInputs,
          nonce \in NonceInputs, expiresAfter \in ExpiryInputs :
          h' = [fn |-> "actionHash", action |-> action, vaultAddress |-> vaultAddress,
                nonce |-> nonce, expiresAfter |-> expiresAfter,
                out |-> ActionHash(action, vaultAddress, nonce, expiresAfter)]
    /\ UNCHANGED <<now, wallet, chainEvents, hook, conn, canceling, storage, flow, calls>>

CallSignL1Action ==
    /\ h = Null
    /\ \E action \in HashActions, activePool \in VaultInputs, nonce \in NonceInputs,
          expiresAfter \in ExpiryInputs, chainId \in {Num(42161), Str("421614")} :
          h' = [fn |-> "signL1Action", action |-> action, vaultAddress |-> activePool,
                nonce |-> nonce, expiresAfter |-> expiresAfter,
                out |-> SignL1Action(action, activePool, nonce, expiresAfter,
                                     IsMainnet(chainId), chainId)]
    /\ UNCHANGED <<now, wallet, chainEvents, hook, conn, canceling, storage, flow, calls>>

NextHash == CallActionHash \/ CallSignL1Action

SpecHash == Init /\ [][NextHash]_vars

----------------------------------------------------------------------------
(* Properties of the encoder *)

Called == h # Null
IsNegative(x) == (x.t = "number" /\ x.n < 0) \/ (x.t = "bigint" /\ x.neg /\ x.mag # <<>>)
HasVault == ~IsNullish(h.vaultAddress)
HasExpiry == ~IsNullish(h.expiresAfter)

\* C5: a negative nonce, or a negative expiry when one is supplied, makes actionHash
\* throw: the call yields an error and nothing else, no digest and, in
\* signL1Action, no request to the wallet
C5_NegativeRejected ==
    (Called /\ (IsNegative(h.nonce) \/ (HasExpiry /\ IsNegative(h.expiresAfter))))
        => (~h.out.ok /\ DOMAIN h.out = {"ok", "err"})

\* C5 witness: signL1Action was called with a negative nonce, and another call
\* shape, a negative expiry after a good nonce, is covered by the second disjunct
C5_Witness ==
    /\ Called
    /\ h.fn = "signL1Action"
    /\ \/ IsNegative(h.nonce)
       \/ (~IsNegative(h.nonce) /\ HasExpiry /\ IsNegative(h.expiresAfter))
    /\ ~h.out.ok

\* where the parts of the preimage lie
ActionLen == Len(Msgpack(h.action))
VaultLen == IF HasVault THEN 1 + AddressBytesLen ELSE 1
ExpiryLen == IF HasExpiry THEN 1 + NonceBytesLen ELSE 0
NonceField(pre) == SubSeq(pre, ActionLen + 1, ActionLen + NonceBytesLen)
ExpiryField(pre) == SubSeq(pre, Len(pre) - NonceBytesLen + 1, Len(pre))

\* C7: the bytes hashed are msgpack(action), 8 nonce bytes, the vault part (0x00,
\* or 0x01 and the 20 address bytes), and, only with an expiry, 0x00 and 8 expiry
\* bytes; so the length is L + 9, L + 29, and 9 more with an expiry
C7_PreimageLayout ==
    (Called /\ h.fn = "actionHash" /\ h.out.ok) =>
        LET pre == h.out.val.pre
            v == ActionLen + NonceBytesLen
        IN /\ Len(pre) = ActionLen + NonceBytesLen + VaultLen + ExpiryLen
           /\ SubSeq(pre, 1, ActionLen) = Msgpack(h.action)
           /\ pre[v + 1] = (IF HasVault THEN 1 ELSE 0)
           /\ HasVault => SubSeq(pre, v + 2, v + 1 + AddressBytesLen)
                              = GetBytes(h.vaultAddress.s)
           /\ HasExpiry => pre[v + VaultLen + 1] = 0
           /\ (~HasVault /\ ~HasExpiry) => Len(pre) = ActionLen + 9
           /\ (HasVault /\ ~HasExpiry) => Len(pre) = ActionLen + 29
           /\ (~HasVault /\ HasExpiry) => Len(pre) = ActionLen + 18
           /\ (HasVault /\ HasExpiry) => Len(pre) = ActionLen + 38

\* C7 witness: a preimage was built with a vault address and an expiry
C7_Witness ==
    Called /\ h.fn = "actionHash" /\ h.out.ok /\ HasVault /\ HasExpiry
        /\ Len(h.out.val.pre) = ActionLen + 38

----------------------------------------------------------------------------
(* Direct calls of the three splits of a signature *)

\* 65 bytes: r counts on from r0, s from s0, and v is the last byte
SignatureBytes(r0, s0, v) ==
    [i \in 1..65 |-> IF i <= 32 THEN (r0 + 7 * i) % 256
                     ELSE IF i <= 64 THEN (s0 + 11 * i) % 256 ELSE v]

\* what signTypedData can return
SignatureInputs ==
    WalletSignatures \cup
    {Hexlify(SignatureBytes(r0, s0, v)) :
        r0 \in {0, 9, 128, 249}, s0 \in {0, 5, 128, 245}, v \in {0, 1, 27, 28}}

\* signInner, from the moment signTypedData answered
SignInnerReturn ==
    /\ h = Null
    /\ \E signature \in SignatureInputs :
          h' = [fn |-> "signInner", signature |-> signature,
                out |-> SignInnerSignature(signature)]
    /\ UNCHANGED <<now, wallet, chainEvents, hook, conn, canceling, storage, flow, calls>>

\* signUserSignedAction, from the moment signTypedData answered
SignUserSignedActionReturn ==
    /\ h = Null
    /\ \E signature \in SignatureInputs :
          h' = [fn |-> "signUserSignedAction", signature |-> signature,
                out |-> ParsedSignature(signature)]
    /\ UNCHANGED <<now, wallet, chainEvents, hook, conn, canceling, storage, flow, calls>>

CallSplitSignature ==
    /\ h = Null
    /\ \E signatureHex \in SignatureInputs :
          h' = [fn |-> "splitSignature", signature |-> signatureHex,
                out |-> SplitSignature(signatureHex)]
    /\ UNCHANGED <<now, wallet, chainEvents, hook, conn, canceling, storage, flow, calls>>

NextSplit == SignInnerReturn \/ SignUserSignedActionReturn \/ CallSplitSignature

SpecSplit == Init /\ [][NextSplit]_vars

LowerHex64(x) ==
    x.t = "string" /\ Len(x.s) = 64 /\ \A i \in 1..64 : IndexOf(CharAt(x.s, i), HexLower) > 0

\* r, s and v are the three parts of the 65 bytes, and put together again they
\* are the 65 bytes
SplitOf(sig, bytes) ==
    /\ Keys(sig) = {"r", "s", "v"}
    /\ LowerHex64(Get(sig, "r")) /\ LowerHex64(Get(sig, "s"))
    /\ Get(sig, "r").s = BytesToHex(SubSeq(bytes, 1, 32))
    /\ Get(sig, "s").s = BytesToHex(SubSeq(bytes, 33, 64))
    /\ Get(sig, "v") = Num(bytes[65])
    /\ GetBytes(Get(sig, "r").s) \o GetBytes(Get(sig, "s").s) \o <<Get(sig, "v").n>> = bytes

\* C18: whichever of signInner, signUserSignedAction and splitSignature splits
\* a 65-byte signature of the wallet, r and s are the 64 lowercase hex
\* characters, without 0x, of bytes 0..31 and 32..63, v is the number in byte
\* 64, the bytes of r, of s and v together are the signature again, and the
\* other two implementations return the same on that signature
C18_SplitRoundTrip ==
    h # Null =>
        /\ Len(GetBytes(h.signature)) = 65
        /\ SplitOf(h.out, GetBytes(h.signature))
        /\ SignInnerSignature(h.signature) = h.out
        /\ ParsedSignature(h.signature) = h.out
        /\ SplitSignature(h.signature) = h.out

\* C18 witness: signInner has split the second signature of the wallet, v
\* being 28
C18_Witness ==
    /\ h # Null /\ h.fn = "signInner" /\ h.signature = Sig2
    /\ Get(h.out, "v") = Num(28)
    /\ Get(h.out, "r") = Str("0123456789abcdef0123456789abcdef0123456789abcdef0123456789abcdef")

----------------------------------------------------------------------------
(* The Orders screen with several cancels in flight: every click on an enabled
   Cancel button is a call of handleCancel of its own, with its own
   signCancelOrder; they share the state canceling and the clock *)

Idle(i) == cancels[i].pc = "idle"
\* the first slot that holds no call
Free(i) == Idle(i) /\ \A j \in 1..(i - 1) : ~Idle(j)
\* everything but the calls of handleCancel, canceling and the clock
ordersEnv == <<wallet, chainEvents, hook, conn, storage, flow, h, acct, lev, dep>>

\* handleCancel(order), the button being enabled: canceling !== order.oid
ClickCancel ==
    /\ Truthy(hook.account) /\ IsConnected
    /\ Truthy(hook.signer) /\ Truthy(hook.chainId)
    /\ \E i \in 1..MaxCancels, order \in OpenOrders :
          /\ Free(i)
          /\ ~StrictEq(canceling, Get(order, "oid"))
          /\ canceling' = Get(order, "oid")
          /\ cancels' = [cancels EXCEPT ![i] =
                            SignCancelEnter(Start("cancel", "ui", order, hook.account,
                                                  hook.signer, hook.chainId))]
    /\ UNCHANGED <<now, ordersEnv>>

\* GET /market/meta answers one of the calls
CancelMetaResolve ==
    \E i \in 1..MaxCancels, metaData \in MetaResponses, t \in now..MaxNow :
        /\ cancels[i].pc = "awaitMeta"
        /\ cancels' = [cancels EXCEPT ![i] =
                          Stamp(SignCancelBuild([@ EXCEPT !.meta = metaData], metaData, t))]
        /\ now' = t
        /\ UNCHANGED <<canceling, ordersEnv>>

CancelMetaReject ==
    \E i \in 1..MaxCancels :
        /\ cancels[i].pc = "awaitMeta"
        /\ cancels' = [cancels EXCEPT ![i] =
                          Reject([@ EXCEPT !.failures = @ + 1], "Network Error")]
        /\ UNCHANGED <<now, canceling, ordersEnv>>

CancelWalletApprove ==
    \E i \in 1..MaxCancels, signatureHex \in WalletSignatures :
        /\ cancels[i].pc = "awaitSig"
        /\ cancels' = [cancels EXCEPT ![i] =
                          SignCancelFinish([@ EXCEPT !.answer = "approved",
                                                     !.signature = signatureHex],
                                           signatureHex)]
        /\ UNCHANGED <<now, canceling, ordersEnv>>

CancelWalletReject ==
    \E i \in 1..MaxCancels :
        /\ cancels[i].pc = "awaitSig"
        /\ cancels' = [cancels EXCEPT ![i] =
                          Reject([@ EXCEPT !.answer = "rejected", !.failures = @ + 1],
                                 "user rejected action")]
        /\ UNCHANGED <<now, canceling, ordersEnv>>

\* signCancelOrder resolved: cancelOrder posts to the backend
CancelResume ==
    \E i \in 1..MaxCancels :
        /\ cancels[i].pc = "resolved"
        /\ cancels' = [cancels EXCEPT ![i] = AfterSigned(@, now)]
        /\ UNCHANGED <<now, canceling, ordersEnv>>

\* the backend answered: fetchOrders() is awaited
CancelBackendRespond ==
    \E i \in 1..MaxCancels :
        /\ cancels[i].pc = "awaitBackend"
        /\ cancels' = [cancels EXCEPT ![i] = [@ EXCEPT !.pc = "awaitRefresh"]]
        /\ UNCHANGED <<now, canceling, ordersEnv>>

\* signCancelOrder or cancelOrder rejected, or fetchOrders() is done: the catch
\* if any, and finally setCanceling(null); the call returns
CancelFinally ==
    \E i \in 1..MaxCancels :
        /\ cancels[i].pc \in {"rejected", "awaitBackend", "awaitRefresh"}
        /\ cancels' = [cancels EXCEPT ![i] = NoFlow]
        /\ canceling' = Null
        /\ UNCHANGED <<now, ordersEnv>>

NextOrders ==
    \/ Mount \/ CheckConnectionAccount \/ CheckConnectionNetwork
    \/ ClickCancel
    \/ CancelMetaResolve \/ CancelMetaReject
    \/ CancelWalletApprove \/ CancelWalletReject
    \/ CancelResume \/ CancelBackendRespond
    \/ CancelFinally

SpecOrders == Init /\ [][NextOrders]_vars

InFlight(i) == ~Idle(i)
Oid(i) == Get(cancels[i].params, "oid")

\* C23: two signing flows of one signer that both came to a signed payload
\* carry different nonces
C23_NoncesDiffer ==
    \A i, j \in 1..MaxCancels :
        (i # j /\ cancels[i].payload # Null /\ cancels[j].payload # Null
             /\ cancels[i].signer = cancels[j].signer) =>
            cancels[i].nonce # cancels[j].nonce

\* C24: while a handleCancel call for an order is in flight, canceling is the
\* id of that order, so its button is disabled and no second call for the same
\* order is in flight
C24_CancelStaysDisabled ==
    \A i \in 1..MaxCancels :
        InFlight(i) =>
            /\ canceling = Oid(i)
            /\ \A j \in 1..MaxCancels : (j # i /\ InFlight(j)) => Oid(j) # Oid(i)

----------------------------------------------------------------------------
(* The wallet hook with the accountsChanged events of the wallet: the mount-time
   check, connect, disconnect and the handlers of accountsChanged, each with
   its awaits *)

\* how many handleAccountsChanged calls are followed at a time
MaxHandlers == 2

Without(q, i) == SubSeq(q, 1, i - 1) \o SubSeq(q, i + 1, Len(q))
\* everything but the wallet, the hook and the handlers of accountsChanged
walletEnv == <<now, chainEvents, conn, canceling, storage, flow, h, cancels, lev, dep>>

\* the user locks the wallet or withdraws the site's permission: accountsChanged
\* with an empty list, and handleAccountsChanged clears the four fields
handleAccountsChangedEmpty ==
    /\ conn # "unmounted"
    /\ wallet.authorised
    /\ wallet' = [wallet EXCEPT !.authorised = FALSE]
    /\ hook' = NoHook
    /\ UNCHANGED <<acct, walletEnv>>

\* the user picks an account in the wallet: accountsChanged with one account, and
\* handleAccountsChanged awaits getCurrentAccount()
handleAccountsChanged ==
    /\ conn # "unmounted"
    /\ Len(acct) < MaxHandlers
    /\ wallet' = [wallet EXCEPT !.authorised = TRUE]
    /\ acct' = Append(acct, "getAccount")
    /\ UNCHANGED <<hook, walletEnv>>

\* getCurrentAccount() answers a handler: account, signer and provider are set and
\* the network is asked for, or there is no account and the handler returns
AccountsChangedAccount ==
    \E i \in 1..Len(acct) :
        /\ acct[i] = "getAccount"
        /\ IF wallet.authorised
           THEN /\ hook' = [hook EXCEPT !.account = Str(User1), !.signer = Signer(TRUE),
                                        !.provider = Str("provider")]
                /\ acct' = [acct EXCEPT ![i] = "getNetwork"]
           ELSE /\ acct' = Without(acct, i)
                /\ UNCHANGED hook
        /\ UNCHANGED <<wallet, walletEnv>>

\* provider.getNetwork() answers a handler
AccountsChangedNetwork ==
    \E i \in 1..Len(acct) :
        /\ acct[i] = "getNetwork"
        /\ hook' = [hook EXCEPT !.chainId = ChainIdString(wallet.chain)]
        /\ acct' = Without(acct, i)
        /\ UNCHANGED <<wallet, walletEnv>>

\* provider.getNetwork() fails: the catch logs
AccountsChangedFail ==
    \E i \in 1..Len(acct) :
        /\ acct[i] = "getNetwork"
        /\ acct' = Without(acct, i)
        /\ UNCHANGED <<wallet, hook, walletEnv>>

NextWallet ==
    \/ Mount
    \/ CheckConnectionAccount \/ CheckConnectionNetwork \/ CheckConnectionFail
    \/ Connect \/ ConnectResolve \/ ConnectReject
    \/ disconnect
    \/ handleAccountsChangedEmpty \/ handleAccountsChanged
    \/ AccountsChangedAccount \/ AccountsChangedNetwork \/ AccountsChangedFail

SpecWallet == Init /\ [][NextWallet]_vars

HookFields == {hook.account, hook.signer, hook.provider, hook.chainId}

\* C27: account, signer, provider and chainId of the hook are all null or
\* all set
C27_HookCoherent == Null \in HookFields => HookFields = {Null}

----------------------------------------------------------------------------
(* Direct calls of the agent storage: saveAgent, removeAgent, getAgent, hasAgent,
   getAgentAddress, getAgentPrivateKey over localStorage['hyperliquid_agent'] *)

\* the lower-case letter of every upper-case letter
LowerCaseOf == [c \in {CharAt(UpperChars, i) : i \in 1..Len(UpperChars)} |->
                   CharAt(LowerChars, IndexOf(c, UpperChars))]

RECURSIVE LowerFrom(_, _)
LowerFrom(s, i) ==
    IF i > Len(s) THEN ""
    ELSE (IF CharAt(s, i) \in DOMAIN LowerCaseOf THEN LowerCaseOf[CharAt(s, i)]
          ELSE CharAt(s, i)) \o LowerFrom(s, i + 1)

\* s.toLowerCase()
ToLowerCase(s) == LowerFrom(s, 1)

\* x?.toLowerCase() and x.toLowerCase(): undefined for null and undefined behind
\* ?., the lower-case string for a string, a TypeError for anything else
LowerOf(x, optional) ==
    IF x.t = "string" THEN [ok |-> TRUE, val |-> Str(ToLowerCase(x.s))]
    ELSE IF optional /\ IsNullish(x) THEN [ok |-> TRUE, val |-> Undefined]
    ELSE Thrown("toLowerCase is not a function")

\* a getAgent that does not look at the user address
getAgentAnyUser(stored, userAddress) == stored

\* getAgent(userAddress = null), stored being what JSON.parse makes of the item
getAgent(stored, userAddress) ==
    IF ~Truthy(stored) THEN Null
    ELSE IF ~Truthy(userAddress) THEN stored
    ELSE Let(LowerOf(Get(stored, "user_address"), TRUE), LAMBDA mine :
         Let(LowerOf(userAddress, FALSE), LAMBDA theirs :
             IF ~mine.ok \/ ~theirs.ok THEN Null
             ELSE IF ~StrictEq(mine.val, theirs.val) THEN Null
             ELSE stored))

hasAgent(stored, userAddress) == Bool(getAgent(stored, userAddress) # Null)

\* agent?.agent_address || null
getAgentAddress(stored, userAddress) ==
    Let(getAgent(stored, userAddress), LAMBDA agent :
        IF agent = Null THEN Null ELSE OrElse(Get(agent, "agent_address"), Null))

getAgentPrivateKey(stored, userAddress) ==
    Let(getAgent(stored, userAddress), LAMBDA agent :
        IF agent = Null THEN Null ELSE OrElse(Get(agent, "agent_private_key"), Null))

\* the account of the wallet as the hook has it and as a checksum address, and
\* another account
UserLower == "0xabcdef0000000000000000000000000000000001"
UserMixed == "0xAbCdEf0000000000000000000000000000000001"
StoreUsers == {Str(UserLower), Str(UserMixed), Str(User1)}
\* what a caller passes for userAddress: nothing, the account of the hook when
\* none is connected, or an account
StoreQueries == {Undefined, Null} \cup StoreUsers
StoreAgents ==
    AgentWallets \cup
    {[address |-> "0x3333333333333333333333333333333333333333",
      privateKey |-> "0x" \o "4444444444444444444444444444444444444444444444444444444444444444"]}

\* the record of the last saveAgent that succeeded, none after removeAgent
LastSaved == IF h = Null THEN Null ELSE h.saved
storeEnv == <<wallet, chainEvents, hook, conn, canceling, flow, calls>>

\* saveAgent(...): localStorage.setItem stores the record, or throws (the quota
\* is exceeded) and saveAgent returns false
CallSaveAgent ==
    \E userAddress \in StoreUsers, agent \in StoreAgents, agentName \in {Undefined, Str("bot")},
       stored \in BOOLEAN, t \in now..MaxNow :
        Let(saveAgent(userAddress, Str(agent.address), Str(agent.privateKey),
                      IF agentName = Undefined THEN Null ELSE agentName, t),
            LAMBDA agentData :
                /\ storage' = IF stored THEN agentData ELSE storage
                /\ h' = [fn |-> "saveAgent", userAddress |-> userAddress,
                         out |-> Bool(stored),
                         saved |-> IF stored THEN agentData ELSE LastSaved]
                /\ now' = t
                /\ UNCHANGED storeEnv)

CallRemoveAgent ==
    /\ storage' = Null
    /\ h' = [fn |-> "removeAgent", userAddress |-> Undefined, out |-> Bool(TRUE),
             saved |-> Null]
    /\ UNCHANGED <<now, storeEnv>>

CallGetAgent ==
    \E userAddress \in StoreQueries :
        /\ h' = [fn |-> "getAgent", userAddress |-> userAddress,
                 out |-> getAgent(storage, IF userAddress = Undefined THEN Null
                                           ELSE userAddress),
                 saved |-> LastSaved]
        /\ UNCHANGED <<now, storage, storeEnv>>

CallHasAgent ==
    \E userAddress \in StoreQueries :
        /\ h' = [fn |-> "hasAgent", userAddress |-> userAddress,
                 out |-> hasAgent(storage, IF userAddress = Undefined THEN Null
                                           ELSE userAddress),
                 saved |-> LastSaved]
        /\ UNCHANGED <<now, storage, storeEnv>>

CallGetAgentAddress ==
    \E userAddress \in StoreQueries :
        /\ h' = [fn |-> "getAgentAddress", userAddress |-> userAddress,
                 out |-> getAgentAddress(storage, IF userAddress = Undefined THEN Null
                                                  ELSE userAddress),
                 saved |-> LastSaved]
        /\ UNCHANGED <<now, storage, storeEnv>>

CallGetAgentPrivateKey ==
    \E userAddress \in StoreQueries :
        /\ h' = [fn |-> "getAgentPrivateKey", userAddress |-> userAddress,
                 out |-> getAgentPrivateKey(storage, IF userAddress = Undefined THEN Null
                                                     ELSE userAddress),
                 saved |-> LastSaved]
        /\ UNCHANGED <<now, storage, storeEnv>>

NextStore ==
    \/ CallSaveAgent \/ CallRemoveAgent
    \/ CallGetAgent \/ CallHasAgent
    \/ CallGetAgentAddress \/ CallGetAgentPrivateKey

SpecStore == Init /\ [][NextStore]_vars

\* the same letter, in upper case in a and in lower case in b
UpperOf(a, b) == IndexOf(a, UpperChars) > 0 /\ IndexOf(a, UpperChars) = IndexOf(b, LowerChars)

\* the two addresses are the same account: the same characters but for the case
\* of the letters
SameAccount(a, b) ==
    /\ Len(a) = Len(b)
    /\ \A i \in 1..Len(a) :
          \/ CharAt(a, i) = CharAt(b, i)
          \/ UpperOf(CharAt(a, i), CharAt(b, i))
          \/ UpperOf(CharAt(b, i), CharAt(a, i))

\* what a single slot holding LastSaved answers to a query for u
Slot(u) ==
    IF LastSaved # Null
       /\ (IsNullish(u) \/ SameAccount(u.s, Get(LastSaved, "user_address").s))
    THEN LastSaved ELSE Null

\* C26: getAgent(u) is the record of the last saveAgent that succeeded when no
\* removeAgent came after it and u is not given or is the stored account in
\* whatever letter case, and null otherwise; hasAgent says whether it is not
\* null; getAgentAddress and getAgentPrivateKey are the two fields of that record
C26_SingleSlot ==
    (h # Null /\ h.fn \notin {"saveAgent", "removeAgent"}) =>
        Let(Slot(h.userAddress), LAMBDA slot :
            /\ storage = LastSaved
            /\ h.fn = "getAgent" => h.out = slot
            /\ h.fn = "hasAgent" => h.out = Bool(slot # Null)
            /\ h.fn = "getAgentAddress" =>
                   h.out = IF slot = Null THEN Null ELSE Get(slot, "agent_address")
            /\ h.fn = "getAgentPrivateKey" =>
                   h.out = IF slot = Null THEN Null ELSE Get(slot, "agent_private_key"))

\* C26 witness: the agent was saved for the account in checksum case, and its
\* private key is asked for the same account in lower case
C26_Witness ==
    /\ h # Null /\ LastSaved # Null
    /\ Get(LastSaved, "user_address") = Str(UserMixed)
    /\ h.fn = "getAgentPrivateKey" /\ h.userAddress = Str(UserLower)
    /\ h.out = Get(storage, "agent_private_key")

----------------------------------------------------------------------------
(* depositWithApproval: getAllowance, approveToken when the allowance is short,
   the pause, then depositUSDC *)

\* getTokenDecimals(token): USDC and USDT have 6 decimals
getTokenDecimals == 6

\* ethers.parseUnits(s, decimals) on whole decimal numbers; anything else throws
ParseUnits(s, decimals) ==
    Let(DigitPrefix(s, 10, 0, 0), LAMBDA p :
        IF s = "" \/ p[2] # Len(s) THEN Thrown("invalid FixedNumber string value")
        ELSE [ok |-> TRUE, val |-> p[1] * 10 ^ decimals])

\* BigInt(s) of the decimal string of an allowance
BigIntOf(s) == DigitPrefix(s, 10, 0, 0)[1]

DepositReject(d, msg) == [d EXCEPT !.pc = "rejected", !.error = msg]
Logged(d, event) == [d EXCEPT !.log = Append(@, event)]

\* depositUSDC(signer, amount, token) up to its first await, signer.getAddress()
depositUSDC(d) == [d EXCEPT !.pc = "awaitAddress"]

\* an approval whose failure is logged and passed over
ApproveFailedPassedOver(d, msg) == depositUSDC(Logged(d, "approveFailed"))

\* approveToken throws what contract.approve or tx.wait threw, and
\* depositWithApproval throws it on
ApproveFailed(d, msg) == DepositReject(Logged(d, "approveFailed"), msg)

\* after await getAllowance(signer, token)
AfterAllowance(d, currentAllowance) ==
    Let(ParseUnits(ToStr(d.amount), getTokenDecimals), LAMBDA amountInUnits :
        IF ~amountInUnits.ok
        THEN DepositReject([d EXCEPT !.allowance = Str(currentAllowance)], amountInUnits.err)
        ELSE IF BigIntOf(currentAllowance) < BigIntOf(IntToStr(amountInUnits.val))
        THEN [d EXCEPT !.pc = "awaitApprove", !.allowance = Str(currentAllowance)]
        ELSE depositUSDC([d EXCEPT !.allowance = Str(currentAllowance)]))

\* amounts as the form passes them, and what the token contract answers for the
\* allowance of the bridge, in units
DepositAmounts == {Num(5), Str("10"), Num(0), Str("abc")}
Allowances == {0, 5 * 10 ^ 6, 10 * 10 ^ 6, 20 * 10 ^ 6}

depositEnv == <<now, wallet, chainEvents, hook, conn, canceling, storage, flow, h,
                cancels, acct, lev>>

CallDepositWithApproval ==
    /\ dep = Null
    /\ \E amount \in DepositAmounts :
          dep' = [pc |-> "awaitAllowance", amount |-> amount, allowance |-> Null,
                  read |-> "pending", log |-> <<>>, error |-> "", result |-> Null]
    /\ UNCHANGED depositEnv

\* contract.allowance(address, bridge) answers: allowance.toString()
AllowanceResolve ==
    /\ dep # Null /\ dep.pc = "awaitAllowance"
    /\ \E allowance \in Allowances :
          dep' = AfterAllowance([dep EXCEPT !.read = "read"], IntToStr(allowance))
    /\ UNCHANGED depositEnv

\* signer.getAddress() or contract.allowance fails: getAllowance returns '0'
AllowanceFail ==
    /\ dep # Null /\ dep.pc = "awaitAllowance"
    /\ dep' = AfterAllowance([dep EXCEPT !.read = "failed"], "0")
    /\ UNCHANGED depositEnv

\* contract.approve(bridge, amountInUnits) resolves: the transaction is sent
ApproveSent ==
    /\ dep # Null /\ dep.pc = "awaitApprove"
    /\ dep' = [Logged(dep, "approveSent") EXCEPT !.pc = "awaitApproveReceipt"]
    /\ UNCHANGED depositEnv

\* the user rejects the approval in the wallet, or sending it fails
ApproveRejected ==
    /\ dep # Null /\ dep.pc = "awaitApprove"
    /\ dep' = ApproveFailed(dep, "user rejected action")
    /\ UNCHANGED depositEnv

\* tx.wait() resolves with the receipt: the approval is confirmed; the pause of
\* two seconds is awaited
ApproveConfirmed ==
    /\ dep # Null /\ dep.pc = "awaitApproveReceipt"
    /\ dep' = [Logged(dep, "approveConfirmed") EXCEPT !.pc = "pause"]
    /\ UNCHANGED depositEnv

\* tx.wait() rejects: the approval was reverted
ApproveReverted ==
    /\ dep # Null /\ dep.pc = "awaitApproveReceipt"
    /\ dep' = ApproveFailed(dep, "transaction execution reverted")
    /\ UNCHANGED depositEnv

\* the two seconds are over: return await depositUSDC(signer, amount, token)
PauseOver ==
    /\ dep # Null /\ dep.pc = "pause"
    /\ dep' = depositUSDC(dep)
    /\ UNCHANGED depositEnv

\* depositUSDC: signer.getAddress() answers, tokenContract.transfer is awaited
DepositAddressResolve ==
    /\ dep # Null /\ dep.pc = "awaitAddress"
    /\ dep' = [dep EXCEPT !.pc = "awaitTransfer"]
    /\ UNCHANGED depositEnv

DepositAddressReject ==
    /\ dep # Null /\ dep.pc = "awaitAddress"
    /\ dep' = DepositReject(dep, "unknown account")
    /\ UNCHANGED depositEnv

\* tokenContract.transfer(bridge, amountInUnits) resolves: the transfer is sent
TransferSent ==
    /\ dep # Null /\ dep.pc = "awaitTransfer"
    /\ dep' = [Logged(dep, "transferSent") EXCEPT !.pc = "awaitTransferReceipt"]
    /\ UNCHANGED depositEnv

TransferRejected ==
    /\ dep # Null /\ dep.pc = "awaitTransfer"
    /\ dep' = DepositReject(dep, "user rejected action")
    /\ UNCHANGED depositEnv

TransferConfirmed ==
    /\ dep # Null /\ dep.pc = "awaitTransferReceipt"
    /\ dep' = [Logged(dep, "transferConfirmed") EXCEPT
                  !.pc = "resolved", !.result = Obj(<< <<"status", Str("ok")>> >>)]
    /\ UNCHANGED depositEnv

TransferReverted ==
    /\ dep # Null /\ dep.pc = "awaitTransferReceipt"
    /\ dep' = DepositReject(dep, "transaction execution reverted")
    /\ UNCHANGED depositEnv

\* the caller has the settled promise
DepositReturn ==
    /\ dep # Null /\ dep.pc \in {"resolved", "rejected"}
    /\ dep' = Null
    /\ UNCHANGED depositEnv

NextDeposit ==
    \/ CallDepositWithApproval
    \/ AllowanceResolve \/ AllowanceFail
    \/ ApproveSent \/ ApproveRejected
    \/ ApproveConfirmed \/ ApproveReverted
    \/ PauseOver
    \/ DepositAddressResolve \/ DepositAddressReject
    \/ TransferSent \/ TransferRejected
    \/ TransferConfirmed \/ TransferReverted
    \/ DepositReturn

SpecDeposit == Init /\ [][NextDeposit]_vars

Happened(event) == \E i \in 1..Len(dep.log) : dep.log[i] = event
Before(a, b) ==
    \E i, j \in 1..Len(dep.log) : i < j /\ dep.log[i] = a /\ dep.log[j] = b
\* the amount in units, for the amounts that are numbers
AmountUnits == ToNumber(dep.amount).n * 1000000
\* the allowance is known and is below the amount
Short == dep.allowance # Null /\ ToNumber(dep.allowance).n < AmountUnits

\* C28: an allowance that cannot be read counts as 0; with the allowance below
\* the amount the approval is sent and confirmed before the transfer is sent,
\* and no transfer is sent once the approval failed; with the allowance at
\* least the amount no approval is sent and the transfer is the next thing asked
C28_ApproveBeforeTransfer ==
    (dep # Null /\ ToNumber(dep.amount).t = "number") =>
        /\ dep.read = "failed" => dep.allowance = Str("0")
        /\ (Short /\ dep.pc # "rejected") =>
               (dep.pc = "awaitApprove" \/ Happened("approveSent"))
        /\ (Short /\ Happened("transferSent")) =>
               /\ Before("approveSent", "approveConfirmed")
               /\ Before("approveConfirmed", "transferSent")
        /\ Happened("approveFailed") => ~Happened("transferSent")
        /\ Happened("approveFailed") => dep.pc = "rejected"
        /\ (dep.allowance # Null /\ ~Short) =>
               /\ ~Happened("approveSent")
               /\ dep.pc \in {"awaitAddress", "awaitTransfer", "awaitTransferReceipt",
                               "resolved", "rejected"}

\* C28 witness: the allowance could not be read, the approval was sent and
\* confirmed, and the transfer was sent after it
C28_Witness ==
    /\ dep # Null /\ dep.read = "failed" /\ dep.amount = Num(5)
    /\ dep.log = <<"approveSent", "approveConfirmed", "transferSent">>

----------------------------------------------------------------------------
(* getAllCoinLeverages: one getCoinLeverage per coin, in turn *)

\* x.k where x may be any value but null and undefined
Member(x, k) == IF x.t = "object" THEN Get(x, k) ELSE Undefined

\* what the info endpoint may answer to activeAssetData: a status and, for a
\* status in 200..299, the parsed body; status 0 is a fetch that rejected
LeverageBodies ==
    { Obj(<< <<"leverage", Obj(<< <<"type", Str("cross")>>, <<"value", Num(5)>> >>)>> >>),
      Obj(<< <<"leverage", Num(3)>> >>),
      Obj(<< <<"leverage", Num(0)>>, <<"isolatedLeverage", Num(2)>> >>),
      Obj(<< <<"crossLeverage", Obj(<< <<"value", Num(0)>> >>)>> >>),
      Obj(<<>>),
      Null }
LeverageResponses ==
    {[status |-> 200, data |-> b] : b \in LeverageBodies}
        \cup {[status |-> st, data |-> Null] : st \in {0, 404, 429}}
CoinLists == {<<>>, <<"BTC">>, <<"BTC", "ETH">>, <<"ETH", "BTC", "SOL">>}

\* getCoinLeverage: the body of an ok response; null for 404 and for everything
\* caught, its own 'Hyperliquid API error: <status>' among it
getCoinLeverage(response) ==
    IF response.status >= 200 /\ response.status <= 299 THEN response.data ELSE Null

\* the value of one of leverage, isolatedLeverage, crossLeverage
LeverageField(x) == IF x.t = "object" THEN Get(x, "value") ELSE x
LeverageValue(leverageData) ==
    IF Truthy(Member(leverageData, "leverage"))
    THEN LeverageField(Member(leverageData, "leverage"))
    ELSE IF Truthy(Member(leverageData, "isolatedLeverage"))
    THEN LeverageField(Member(leverageData, "isolatedLeverage"))
    ELSE IF Truthy(Member(leverageData, "crossLeverage"))
    THEN LeverageField(Member(leverageData, "crossLeverage"))
    ELSE Null

\* leverageValue && leverageValue > 0
ValidLeverage(x) == Truthy(x) /\ ToNumber(x).t = "number" /\ ToNumber(x).n > 0

\* the body of the try up to the delay: leverages[coin] = leverageValue
WithLeverage(leverages, coin, leverageData) ==
    IF Truthy(leverageData) /\ ValidLeverage(LeverageValue(leverageData))
    THEN Put(leverages, coin, LeverageValue(leverageData))
    ELSE leverages

\* the head of the loop at index i: the next request, or the return
LoopAt(l, i) ==
    IF i < Len(l.coins)
    THEN [l EXCEPT !.pc = "awaitLeverage", !.i = i,
                   !.requests = Append(@, l.coins[i + 1])]
    ELSE [l EXCEPT !.pc = "resolved", !.i = i]

leverageEnv == <<now, wallet, chainEvents, hook, conn, canceling, storage, flow, h,
                 cancels, acct, dep>>

CallGetAllCoinLeverages ==
    /\ lev = Null
    /\ \E coins \in CoinLists :
          lev' = LoopAt([pc |-> "start", i |-> 0, coins |-> coins,
                         leverages |-> Obj(<<>>), requests |-> <<>>,
                         answers |-> <<>>, waits |-> <<>>], 0)
    /\ UNCHANGED leverageEnv

\* await getCoinLeverage(address, coin, chainId) settles; the delay is awaited
\* unless the coin is the last one
LeverageRespond ==
    /\ lev # Null /\ lev.pc = "awaitLeverage"
    /\ \E response \in LeverageResponses :
          Let([lev EXCEPT
                 !.answers = Append(@, response.status),
                 !.leverages = WithLeverage(@, lev.coins[lev.i + 1],
                                            getCoinLeverage(response))],
              LAMBDA l :
                 lev' = IF l.i < Len(l.coins) - 1
                        THEN [l EXCEPT !.pc = "delay",
                                       !.waits = Append(@, [after |-> l.i + 1, ms |-> 500])]
                        ELSE LoopAt(l, l.i + 1))
    /\ UNCHANGED leverageEnv

\* the delay is over: i++
DelayOver ==
    /\ lev # Null /\ lev.pc = "delay"
    /\ lev' = LoopAt(lev, lev.i + 1)
    /\ UNCHANGED leverageEnv

\* return leverages
LeveragesReturn ==
    /\ lev # Null /\ lev.pc = "resolved"
    /\ lev' = Null
    /\ UNCHANGED leverageEnv

NextLeverage ==
    \/ CallGetAllCoinLeverages
    \/ LeverageRespond
    \/ DelayOver
    \/ LeveragesReturn

SpecLeverage == Init /\ [][NextLeverage]_vars

\* the k-th coin was answered 429 and the coin after it has been requested
RateLimited(k) ==
    /\ k <= Len(lev.answers) /\ lev.answers[k] = 429
    /\ k < Len(lev.requests)
WaitedAfter(k, ms) ==
    \E j \in 1..Len(lev.waits) : lev.waits[j] = [after |-> k, ms |-> ms]
\* the coins are requested once each in list order, with 500 ms between two
RequestedInOrder ==
    /\ Len(lev.requests) <= Len(lev.coins)
    /\ \A k \in 1..Len(lev.requests) : lev.requests[k] = lev.coins[k]
    /\ lev.pc = "resolved" => Len(lev.requests) = Len(lev.coins)
    /\ \A k \in 1..Len(lev.requests) : k > 1 => \E ms \in {500, 2000} : WaitedAfter(k - 1, ms)

\* C29: after a coin answered with 429 the loop waits 2 seconds before the next
\* coin; the coins are requested once each in list order with a wait between
C29_RateLimitBackoff ==
    lev # Null =>
        /\ RequestedInOrder
        /\ \A k \in 1..Len(lev.coins) : RateLimited(k) => WaitedAfter(k, 2000)

====
